---- MODULE Spec2Model ----
(***************************************************************************)
(* Multi-tenant CRM API (backend/src/index.ts) over its D1 schema           *)
(* (schema.sql): rate limiter, bearer-token gate, token issue / verify,     *)
(* register / login and the tenant-scoped CRUD handlers.                    *)
(*                                                                          *)
(* Text values the code inspects character by character (company names,    *)
(* tenant keys, e-mails, roles, tokens, headers) are sequences of           *)
(* one-character strings.  Times are milliseconds since the epoch, as       *)
(* Date.now() returns them.                                                 *)
(***************************************************************************)
EXTENDS Integers, Sequences, FiniteSets, TLC

VARIABLES
  now,            \* the clock, Date.now() in ms
  tenants,        \* table tenants: sequence of rows, id = position (AUTOINCREMENT)
  users,          \* table users
  companies,      \* table companies
  contacts,       \* table contacts
  opportunities,  \* table opportunities
  captures,       \* table captures
  activity_log,   \* table activity_log
  rate_limits,    \* table rate_limits: set of rows (identifier, endpoint, window_start unique)
  tokens,         \* tokens the API has handed out in login responses
  req,            \* the request handled last
  resp,           \* the response to it
  rlLog,          \* the rateLimit calls made so far: who, where, when, outcome
  jwt,            \* token workbench: a token issued, possibly altered, and verified
  steps,          \* number of state-changing steps taken (bounded)
  idle,           \* the last step changed nothing but req and resp
  inflight,       \* requests being handled concurrently: each one's position in its handler
  browser         \* the single-page frontend: localStorage, the user held, the location

vars == <<now, tenants, users, companies, contacts, opportunities, captures,
          activity_log, rate_limits, tokens, req, resp, rlLog, jwt, steps, idle,
          inflight, browser>>

dbVars == <<tenants, users, companies, contacts, opportunities, captures,
            activity_log, rate_limits>>

(***************************************************************************)
(* Text helpers                                                            *)
(***************************************************************************)

\* String.prototype.split(sep) for a one-character separator: the piece from
\* position `from` to the next occurrence of sep, then the pieces after it.
RECURSIVE SplitFrom(_, _, _)
SplitFrom(s, sep, from) ==
  IF \E i \in from..Len(s) : s[i] = sep
  THEN LET next == CHOOSE i \in from..Len(s) :
                     s[i] = sep /\ \A j \in from..(i - 1) : s[j] # sep
       IN  <<SubSeq(s, from, next - 1)>> \o SplitFrom(s, sep, next + 1)
  ELSE <<SubSeq(s, from, Len(s))>>

Split(s, sep) == SplitFrom(s, sep, 1)

\* Array.prototype.join(sep)
RECURSIVE Join(_, _)
Join(parts, sep) ==
  IF Len(parts) = 0 THEN <<>>
  ELSE IF Len(parts) = 1 THEN parts[1]
  ELSE parts[1] \o <<sep>> \o Join(Tail(parts), sep)

\* String.prototype.startsWith
StartsWith(s, p) == Len(s) >= Len(p) /\ SubSeq(s, 1, Len(p)) = p

\* String.prototype.includes
Includes(s, p) ==
  \E i \in 1..(Len(s) - Len(p) + 1) : SubSeq(s, i, i + Len(p) - 1) = p

\* position of a character in a table, 0 when absent
IndexOf(table, c) ==
  IF \E i \in 1..Len(table) : table[i] = c
  THEN CHOOSE i \in 1..Len(table) : table[i] = c
  ELSE 0

DigitChars == <<"0", "1", "2", "3", "4", "5", "6", "7", "8", "9">>

\* decimal rendering of a non-negative integer (JSON.stringify of a number)
RECURSIVE ToDigits(_)
ToDigits(n) ==
  IF n < 10 THEN <<DigitChars[n + 1]>>
  ELSE ToDigits(n \div 10) \o <<DigitChars[(n % 10) + 1]>>

DigitSet == {DigitChars[i] : i \in 1..Len(DigitChars)}
DigitValue == [c \in DigitSet |-> IndexOf(DigitChars, c) - 1]

IsDigits(s) == Len(s) > 0 /\ \A i \in 1..Len(s) : s[i] \in DigitSet

\* JSON.parse of a decimal number
RECURSIVE FromDigits(_)
FromDigits(s) ==
  IF Len(s) = 0 THEN 0
  ELSE 10 * FromDigits(SubSeq(s, 1, Len(s) - 1)) + DigitValue[s[Len(s)]]

UpperChars == <<"A", "B", "C", "D", "E", "F", "G", "H", "I", "J", "K", "L", "M",
                "N", "O", "P", "Q", "R", "S", "T", "U", "V", "W", "X", "Y", "Z">>
LowerChars == <<"a", "b", "c", "d", "e", "f", "g", "h", "i", "j", "k", "l", "m",
                "n", "o", "p", "q", "r", "s", "t", "u", "v", "w", "x", "y", "z">>

\* the characters of a table
CharsOf(table) == {table[i] : i \in 1..Len(table)}

\* the map sending from[i] to to[i]
CharMap(from, to) == [c \in CharsOf(from) |-> to[IndexOf(from, c)]]

LowerOf == CharMap(UpperChars, LowerChars)
UpperSet == CharsOf(UpperChars)
AlnumLowerSet == CharsOf(LowerChars) \cup CharsOf(DigitChars)

\* String.prototype.toLowerCase
ToLowerCase(s) == [i \in 1..Len(s) |-> IF s[i] \in UpperSet THEN LowerOf[s[i]] ELSE s[i]]

IsAlnumLower(c) == c \in AlnumLowerSet

\* .replace(/[^a-z0-9]/g, '-')
DashNonAlnum(s) == [i \in 1..Len(s) |-> IF IsAlnumLower(s[i]) THEN s[i] ELSE "-"]

\* .replace(/-+/g, '-')
RECURSIVE CollapseDashes(_)
CollapseDashes(s) ==
  IF Len(s) < 2 THEN s
  ELSE IF s[1] = "-" /\ s[2] = "-" THEN CollapseDashes(Tail(s))
  ELSE <<s[1]>> \o CollapseDashes(Tail(s))

\* .replace(/^-|-$/g, '')
TrimDash(s) ==
  LET a == IF Len(s) > 0 /\ s[1] = "-" THEN Tail(s) ELSE s
  IN  IF Len(a) > 0 /\ a[Len(a)] = "-" THEN SubSeq(a, 1, Len(a) - 1) ELSE a

\* the key derivation without the collapsing of runs of '-'
TenantKeyUncollapsed(companyName) == TrimDash(DashNonAlnum(ToLowerCase(companyName)))

\* the tenant key register derives from the company name
TenantKeyOf(companyName) == TrimDash(CollapseDashes(DashNonAlnum(ToLowerCase(companyName))))

(***************************************************************************)
(* Time                                                                    *)
(***************************************************************************)

MsPerSecond == 1000
WindowMs == 60000
TokenLifetimeSeconds == 86400

\* Date.prototype.toISOString: YYYY-MM-DDTHH:mm:ss.sssZ, a fixed-width text
\* whose fields run from the most to the least significant.  The date part is
\* kept as the day number (it grows with the date); SQLite compares the texts
\* field by field from the left, which IsoLess does.
ToISOString(t) ==
  <<t \div 86400000, (t \div 3600000) % 24, (t \div 60000) % 60,
    (t \div 1000) % 60, t % 1000>>

RECURSIVE IsoLessFrom(_, _, _)
IsoLessFrom(a, b, i) ==
  IF i > Len(a) THEN FALSE
  ELSE IF a[i] < b[i] THEN TRUE
  ELSE IF a[i] > b[i] THEN FALSE
  ELSE IsoLessFrom(a, b, i + 1)

\* text comparison a < b of two ISO timestamps
IsoLess(a, b) == IsoLessFrom(a, b, 1)

(***************************************************************************)
(* Tokens: generateJWT, verifyJWT, signHS256                               *)
(***************************************************************************)

\* the characters JSON.stringify writes in this model, and the base64
\* alphabet (with its padding character) btoa writes
PlainChars == DigitChars \o LowerChars \o UpperChars \o <<",", "@", ".">>
B64Chars == UpperChars \o LowerChars \o DigitChars \o <<"+", "/", "=">>

\* a character outside Latin-1 (code point above U+00FF)
NonLatin1 == "U+0416"

\* btoa throws InvalidCharacterError on a character outside Latin-1
BtoaThrows(s) == \E i \in 1..Len(s) : s[i] = NonLatin1

BtoaMap == CharMap(PlainChars, B64Chars)
AtobMap == CharMap(B64Chars, PlainChars)
B64Set == CharsOf(B64Chars)

\* btoa: an injective re-coding into the base64 alphabet, which has no '.'
Btoa(s) == [i \in 1..Len(s) |-> BtoaMap[s[i]]]

\* atob throws on a character outside the base64 alphabet
AtobThrows(s) == \E i \in 1..Len(s) : s[i] \notin B64Set

Atob(s) == [i \in 1..Len(s) |-> AtobMap[s[i]]]

\* JSON.stringify of the header { alg: 'HS256', typ: 'JWT' }
HeaderJson == <<"H", "S", "2", "5", "6", ",", "J", "W", "T">>

\* JSON.stringify of the token payload: the fields in insertion order
StringifyPayload(p) ==
  Join(<<ToDigits(p.userId), ToDigits(p.tenantId), p.email, p.role,
         ToDigits(p.iat), ToDigits(p.exp)>>, ",")

NoPayload == [userId |-> 0, tenantId |-> 0, email |-> <<>>, role |-> <<>>, iat |-> 0, exp |-> 0]

\* JSON.parse throws on a text that is not of the shape stringify writes
ParseThrows(s) ==
  LET f == Split(s, ",")
  IN  Len(f) # 6 \/ ~IsDigits(f[1]) \/ ~IsDigits(f[2]) \/ ~IsDigits(f[5]) \/ ~IsDigits(f[6])

ParsePayload(s) ==
  LET f == Split(s, ",")
  IN  [userId |-> FromDigits(f[1]), tenantId |-> FromDigits(f[2]), email |-> f[3],
       role |-> f[4], iat |-> FromDigits(f[5]), exp |-> FromDigits(f[6])]

\* HMAC-SHA256 followed by btoa, idealised as a collision-free keyed function:
\* the key and the data re-coded character by character into the signature
\* alphabet.  Distinct (data, secret) give distinct signatures.
SigInChars == B64Chars \o <<".", "_">>
SigOutChars == <<"_">> \o B64Chars \o <<"~">>

SigMap == CharMap(SigInChars, SigOutChars)

signHS256(data, secret) ==
  LET d == secret \o <<".">> \o data
  IN  [i \in 1..Len(d) |-> SigMap[d[i]]]

\* the payload with a lifetime of one hour in place of 24
JwtPayloadOfOneHour(payload, t) ==
  [userId |-> payload.userId, tenantId |-> payload.tenantId,
   email |-> payload.email, role |-> payload.role,
   iat |-> t \div MsPerSecond,
   exp |-> (t \div MsPerSecond) + 3600]

\* the claims generateJWT adds to the payload at clock reading t (ms)
JwtPayloadOf(payload, t) ==
  [userId |-> payload.userId, tenantId |-> payload.tenantId,
   email |-> payload.email, role |-> payload.role,
   iat |-> t \div MsPerSecond,
   exp |-> (t \div MsPerSecond) + TokenLifetimeSeconds]

\* generateJWT throws when btoa does
GenerateThrows(payload) == BtoaThrows(StringifyPayload(JwtPayloadOf(payload, 0)))

\* generateJWT(payload, secret) called at clock reading t (ms)
generateJWT(payload, secret, t) ==
  LET encodedHeader == Btoa(HeaderJson)
      encodedPayload == Btoa(StringifyPayload(JwtPayloadOf(payload, t)))
      signature == signHS256(encodedHeader \o <<".">> \o encodedPayload, secret)
  IN  encodedHeader \o <<".">> \o encodedPayload \o <<".">> \o signature

\* what `${x}` writes for an undefined x, and the undefined value itself
UndefinedText == <<"u", "n", "d", "e", "f", "i", "n", "e", "d">>
UndefinedValue == <<"(undefined)">>

Failed(msg) == [ok |-> FALSE, error |-> msg, payload |-> NoPayload]

\* verifyJWT decoding the payload and examining the expiry before it compares
\* the signature
verifyJWTExpiryFirst(token, secret, t) ==
  LET parts == Split(token, ".")
      header == parts[1]
      payload == IF Len(parts) >= 2 THEN parts[2] ELSE UndefinedText
      signature == IF Len(parts) >= 3 THEN parts[3] ELSE UndefinedValue
      expectedSignature == signHS256(header \o <<".">> \o payload, secret)
  IN  IF AtobThrows(payload) THEN Failed("InvalidCharacterError")
      ELSE IF ParseThrows(Atob(payload)) THEN Failed("SyntaxError")
      ELSE LET decodedPayload == ParsePayload(Atob(payload))
           IN  IF decodedPayload.exp < t \div MsPerSecond THEN Failed("Token expired")
               ELSE IF signature # expectedSignature THEN Failed("Invalid signature")
               ELSE [ok |-> TRUE, error |-> "", payload |-> decodedPayload]

\* verifyJWT(token, secret) called at clock reading t (ms)
verifyJWT(token, secret, t) ==
  LET parts == Split(token, ".")
      header == parts[1]
      payload == IF Len(parts) >= 2 THEN parts[2] ELSE UndefinedText
      signature == IF Len(parts) >= 3 THEN parts[3] ELSE UndefinedValue
      expectedSignature == signHS256(header \o <<".">> \o payload, secret)
  IN  IF signature # expectedSignature THEN Failed("Invalid signature")
      ELSE IF AtobThrows(payload) THEN Failed("InvalidCharacterError")
      ELSE IF ParseThrows(Atob(payload)) THEN Failed("SyntaxError")
      ELSE LET decodedPayload == ParsePayload(Atob(payload))
           IN  IF decodedPayload.exp < t \div MsPerSecond THEN Failed("Token expired")
               ELSE [ok |-> TRUE, error |-> "", payload |-> decodedPayload]

(***************************************************************************)
(* Requests and responses                                                  *)
(***************************************************************************)

\* an absent (undefined) field of a JSON body whose values are kept whole
Undef == "(undefined)"
\* SQL NULL in a text column
Null == "NULL"

\* c.req.header('Authorization') of a request without the header
NoHeader == UndefinedValue
BearerPrefix == <<"B", "e", "a", "r", "e", "r", " ">>

PathRegister == <<"/", "a", "p", "i", "/", "a", "u", "t", "h", "/", "r", "e", "g", "i", "s", "t", "e", "r">>
PathLogin == <<"/", "a", "p", "i", "/", "a", "u", "t", "h", "/", "l", "o", "g", "i", "n">>
PathOpportunities == <<"/", "a", "p", "i", "/", "o", "p", "p", "o", "r", "t", "u", "n", "i", "t", "i", "e", "s">>
PathContacts == <<"/", "a", "p", "i", "/", "c", "o", "n", "t", "a", "c", "t", "s">>
PathCompanies == <<"/", "a", "p", "i", "/", "c", "o", "m", "p", "a", "n", "i", "e", "s">>
PathCaptures == <<"/", "a", "p", "i", "/", "c", "a", "p", "t", "u", "r", "e", "s">>
PathHealth == <<"/", "h", "e", "a", "l", "t", "h">>
ApiPrefix == <<"/", "a", "p", "i", "/">>
AuthLoginText == <<"/", "a", "u", "t", "h", "/", "l", "o", "g", "i", "n">>
AuthRegisterText == <<"/", "a", "u", "t", "h", "/", "r", "e", "g", "i", "s", "t", "e", "r">>

\* c.env.JWT_SECRET
JwtSecret == <<"s", "3">>

RegisterLimit == 5
LoginLimit == 10
DefaultLimit == 100
BcryptRounds == 10

NoUser == [userId |-> 0, tenantId |-> 0, email |-> <<>>, role |-> <<>>]

\* the response c.json(...) builds, with what the request caused on the way:
\*   data        rows of the body (a list, or the one record returned)
\*   details     the body carries the caught exception's message
\*   handler     the route handler that ran ("none" when the chain ended before one)
\*   rateChecked rateLimit was called for the request
\*   stmts       database statements issued for the request
Response(status, error, handler, rateChecked, stmts) ==
  [status |-> status, error |-> error, details |-> FALSE, data |-> {},
   token |-> <<>>, tenantKey |-> <<>>, tenantId |-> 0,
   handler |-> handler, rateChecked |-> rateChecked, stmts |-> stmts]

NoResponse == Response(0, "", "none", FALSE, 0)
NoRequest == [method |-> "", path |-> <<>>, ip |-> <<>>, auth |-> NoHeader, user |-> NoUser]

(***************************************************************************)
(* rateLimit                                                               *)
(***************************************************************************)

NoRow == [identifier |-> <<>>, endpoint |-> <<>>, count |-> 0, window_start |-> <<>>]

\* a purge that deletes nothing
RlPurgeNothing(rows, t) == rows

\* DELETE FROM rate_limits WHERE window_start < ?   (bound: t - 60000 as ISO text)
RlPurge(rows, t) ==
  {r \in rows : ~IsoLess(r.window_start, ToISOString(t - WindowMs))}

\* SELECT count FROM rate_limits WHERE identifier = ? AND endpoint = ? AND window_start >= ?
RlSelect(rows, identifier, endpoint, t) ==
  {r \in rows : /\ r.identifier = identifier
                /\ r.endpoint = endpoint
                /\ ~IsoLess(r.window_start, ToISOString(t - WindowMs))}

\* .first(): one of the selected rows (the statement has no ORDER BY), or none
RlFirstChoices(rows, identifier, endpoint, t) ==
  IF RlSelect(RlPurge(rows, t), identifier, endpoint, t) = {} THEN {NoRow}
  ELSE RlSelect(RlPurge(rows, t), identifier, endpoint, t)

\* an upsert whose conflict target leaves out the endpoint
RlUpsertAnyEndpoint(rows, identifier, endpoint, t) ==
  LET hit == {r \in rows : /\ r.identifier = identifier
                           /\ r.window_start = ToISOString(t)}
  IN  IF hit = {}
      THEN rows \cup {[identifier |-> identifier, endpoint |-> endpoint, count |-> 1,
                       window_start |-> ToISOString(t)]}
      ELSE (rows \ hit) \cup {[r EXCEPT !.count = r.count + 1] : r \in hit}

\* INSERT ... VALUES (?, ?, 1, now) ON CONFLICT(identifier, endpoint, window_start)
\* DO UPDATE SET count = count + 1
RlUpsert(rows, identifier, endpoint, t) ==
  LET key == [identifier |-> identifier, endpoint |-> endpoint, window_start |-> ToISOString(t)]
      hit == {r \in rows : /\ r.identifier = key.identifier
                           /\ r.endpoint = key.endpoint
                           /\ r.window_start = key.window_start}
  IN  IF hit = {}
      THEN rows \cup {[identifier |-> identifier, endpoint |-> endpoint, count |-> 1,
                       window_start |-> ToISOString(t)]}
      ELSE (rows \ hit) \cup {[r EXCEPT !.count = r.count + 1] : r \in hit}

\* if (result && result.count >= limit)
RlLimited(first, limit) == first # NoRow /\ first.count >= limit

\* rateLimit(c, identifier, limit) at clock reading t, `first` being the row
\* .first() returned: the outcome and the table it leaves
rateLimit(rows, identifier, endpoint, limit, t, first) ==
  IF RlLimited(first, limit)
  THEN [limited |-> TRUE, rows |-> RlPurge(rows, t)]
  ELSE [limited |-> FALSE, rows |-> RlUpsert(RlPurge(rows, t), identifier, endpoint, t)]

RlEntry(identifier, endpoint, limit, t, limited) ==
  [identifier |-> identifier, endpoint |-> endpoint, limit |-> limit, at |-> t,
   allowed |-> ~limited]

(***************************************************************************)
(* JWT authentication middleware, app.use('/api/*')                        *)
(***************************************************************************)

\* c.req.path.includes('/auth/login') || c.req.path.includes('/auth/register')
GateExempt(path) == Includes(path, AuthLoginText) \/ Includes(path, AuthRegisterText)

\* the middleware is mounted on /api/*
UnderApi(path) == StartsWith(path, ApiPrefix)

\* the middleware with its catch block falling through to next()
GateFallingThrough(r, t) ==
  IF ~UnderApi(r.path) \/ GateExempt(r.path)
  THEN [pass |-> TRUE, verified |-> FALSE, user |-> NoUser, status |-> 0, error |-> ""]
  ELSE IF r.auth = NoHeader \/ ~StartsWith(r.auth, BearerPrefix)
  THEN [pass |-> FALSE, verified |-> FALSE, user |-> NoUser, status |-> 401,
        error |-> "Unauthorized"]
  ELSE LET v == verifyJWT(SubSeq(r.auth, Len(BearerPrefix) + 1, Len(r.auth)), JwtSecret, t)
       IN  [pass |-> TRUE, verified |-> v.ok,
            user |-> IF v.ok
                     THEN [userId |-> v.payload.userId, tenantId |-> v.payload.tenantId,
                           email |-> v.payload.email, role |-> v.payload.role]
                     ELSE NoUser,
            status |-> 0, error |-> ""]

\* the middleware answering with the message of the error verifyJWT threw
GateTellingWhy(r, t) ==
  IF ~UnderApi(r.path) \/ GateExempt(r.path)
  THEN [pass |-> TRUE, verified |-> FALSE, user |-> NoUser, status |-> 0, error |-> ""]
  ELSE IF r.auth = NoHeader \/ ~StartsWith(r.auth, BearerPrefix)
  THEN [pass |-> FALSE, verified |-> FALSE, user |-> NoUser, status |-> 401,
        error |-> "Unauthorized"]
  ELSE LET v == verifyJWT(SubSeq(r.auth, Len(BearerPrefix) + 1, Len(r.auth)), JwtSecret, t)
       IN  IF v.ok
           THEN [pass |-> TRUE, verified |-> TRUE,
                 user |-> [userId |-> v.payload.userId, tenantId |-> v.payload.tenantId,
                           email |-> v.payload.email, role |-> v.payload.role],
                 status |-> 0, error |-> ""]
           ELSE [pass |-> FALSE, verified |-> FALSE, user |-> NoUser, status |-> 401,
                 error |-> v.error]

\* outcome of the middleware for request r at clock reading t:
\*   pass      next() is called
\*   verified  verifyJWT succeeded and c.set('user', ...) was done
Gate(r, t) ==
  IF ~UnderApi(r.path) \/ GateExempt(r.path)
  THEN [pass |-> TRUE, verified |-> FALSE, user |-> NoUser, status |-> 0, error |-> ""]
  ELSE IF r.auth = NoHeader \/ ~StartsWith(r.auth, BearerPrefix)
  THEN [pass |-> FALSE, verified |-> FALSE, user |-> NoUser, status |-> 401,
        error |-> "Unauthorized"]
  ELSE LET v == verifyJWT(SubSeq(r.auth, Len(BearerPrefix) + 1, Len(r.auth)), JwtSecret, t)
       IN  IF v.ok
           THEN [pass |-> TRUE, verified |-> TRUE,
                 user |-> [userId |-> v.payload.userId, tenantId |-> v.payload.tenantId,
                           email |-> v.payload.email, role |-> v.payload.role],
                 status |-> 0, error |-> ""]
           ELSE [pass |-> FALSE, verified |-> FALSE, user |-> NoUser, status |-> 401,
                 error |-> "Invalid token"]

(***************************************************************************)
(* Password hashing                                                        *)
(***************************************************************************)

\* bcrypt.hash(password, 10): the salt is left out, the hash stands for the
\* password it was made from
hashPassword(password) == [alg |-> "bcrypt", rounds |-> BcryptRounds, of |-> password]

\* a comparison that accepts every password for a bcrypt hash
verifyPasswordOfAny(password, hash) == hash.alg = "bcrypt"

\* bcrypt.compare(password, hash)
verifyPassword(password, hash) == hash.alg = "bcrypt" /\ hash.of = password

(***************************************************************************)
(* Tables                                                                  *)
(***************************************************************************)

\* rows of a table (a sequence, id = position) as a set
Rows(table) == {table[i] : i \in 1..Len(table)}

\* meta.last_row_id of an insert into the table
NextId(table) == Len(table) + 1

TenantRow(id, tenantKey, companyName, email) ==
  [id |-> id, tenant_key |-> tenantKey, company_name |-> companyName,
   contact_email |-> email, is_active |-> 1]

UserRow(id, tenantId, email, passwordHash, firstName, lastName, role) ==
  [id |-> id, tenant_id |-> tenantId, email |-> email, password_hash |-> passwordHash,
   first_name |-> firstName, last_name |-> lastName, role |-> role,
   is_active |-> 1, last_login |-> 0]

LogRow(id, tenantId, userId, activityType, entityType, entityId) ==
  [id |-> id, tenant_id |-> tenantId, user_id |-> userId, activity_type |-> activityType,
   entity_type |-> entityType, entity_id |-> entityId]

RoleAdmin == <<"a", "d", "m", "i", "n">>

(***************************************************************************)
(* POST /api/auth/register                                                 *)
(***************************************************************************)

RegisterRequest(ip, body) ==
  [method |-> "POST", path |-> PathRegister, ip |-> ip, auth |-> NoHeader,
   user |-> NoUser, body |-> body]

\* the response of the catch block: { error, details: error.message }
Thrown(error, handler, rateChecked, stmts) ==
  [Response(500, error, handler, rateChecked, stmts) EXCEPT !.details = TRUE]

\* body: companyName, email (character sequences or UndefinedValue),
\* password, firstName, lastName (whole values or Undef)
Register(ip, body, first, d) ==
  LET at == now + d
      rl == rateLimit(rate_limits, body.email, PathRegister, RegisterLimit, at, first)
      tenantKey == TenantKeyOf(body.companyName)
      existingTenant == {t \in Rows(tenants) : t.tenant_key = tenantKey}
      tenantId == NextId(tenants)
      withTenant == Append(tenants, TenantRow(tenantId, tenantKey, body.companyName, body.email))
  IN
  /\ req' = RegisterRequest(ip, body)
  /\ now' = at
  /\ UNCHANGED <<companies, contacts, opportunities, captures, activity_log, tokens, jwt>>
  /\ IF body.email = UndefinedValue
     THEN \* rateLimit: the purge runs, binding the identifier of the SELECT throws
          /\ rate_limits' = RlPurge(rate_limits, at)
          /\ resp' = Thrown("Registration failed", "register", TRUE, 1)
          /\ UNCHANGED <<tenants, users, rlLog>>
     ELSE
     /\ rate_limits' = rl.rows
     /\ rlLog' = Append(rlLog, RlEntry(body.email, PathRegister, RegisterLimit, at, rl.limited))
     /\ IF rl.limited
        THEN /\ resp' = Response(429, "Rate limit exceeded", "register", TRUE, 2)
             /\ UNCHANGED <<tenants, users>>
        ELSE IF body.companyName = UndefinedValue
        THEN \* companyName.toLowerCase() throws
             /\ resp' = Thrown("Registration failed", "register", TRUE, 3)
             /\ UNCHANGED <<tenants, users>>
        ELSE IF existingTenant # {}
        THEN /\ resp' = Response(400, "Company name already registered", "register", TRUE, 4)
             /\ UNCHANGED <<tenants, users>>
        ELSE IF body.password = Undef \/ body.firstName = Undef \/ body.lastName = Undef
        THEN \* the tenant row is in; hashPassword or the binding of the user insert throws
             /\ tenants' = withTenant
             /\ resp' = Thrown("Registration failed", "register", TRUE, 5)
             /\ UNCHANGED users
        ELSE /\ tenants' = withTenant
             /\ users' = Append(users, UserRow(NextId(users), tenantId, body.email,
                                               hashPassword(body.password),
                                               body.firstName, body.lastName, RoleAdmin))
             /\ resp' = [Response(201, "", "register", TRUE, 6) EXCEPT
                           !.tenantKey = tenantKey, !.tenantId = tenantId]

(***************************************************************************)
(* POST /api/auth/login                                                    *)
(***************************************************************************)

LoginRequest(ip, body) ==
  [method |-> "POST", path |-> PathLogin, ip |-> ip, auth |-> NoHeader,
   user |-> NoUser, body |-> body]

\* body: email, tenantKey (character sequences or UndefinedValue), password
Login(ip, body, first, d) ==
  LET at == now + d
      rl == rateLimit(rate_limits, body.email, PathLogin, LoginLimit, at, first)
      \* SELECT id, is_active FROM tenants WHERE tenant_key = ?
      tenant == {t \in Rows(tenants) : t.tenant_key = body.tenantKey}
      \* SELECT * FROM users WHERE tenant_id = ? AND email = ? AND is_active = 1
      user == {u \in Rows(users) : /\ \E t \in tenant : u.tenant_id = t.id
                                   /\ u.email = body.email
                                   /\ u.is_active = 1}
  IN
  /\ req' = LoginRequest(ip, body)
  /\ now' = at
  /\ UNCHANGED <<tenants, companies, contacts, opportunities, captures, jwt>>
  /\ IF body.email = UndefinedValue
     THEN /\ rate_limits' = RlPurge(rate_limits, at)
          /\ resp' = Thrown("Login failed", "login", TRUE, 1)
          /\ UNCHANGED <<users, activity_log, tokens, rlLog>>
     ELSE
     /\ rate_limits' = rl.rows
     /\ rlLog' = Append(rlLog, RlEntry(body.email, PathLogin, LoginLimit, at, rl.limited))
     /\ IF rl.limited
        THEN /\ resp' = Response(429, "Rate limit exceeded", "login", TRUE, 2)
             /\ UNCHANGED <<users, activity_log, tokens>>
        ELSE IF body.tenantKey = UndefinedValue
        THEN \* binding the tenant key throws
             /\ resp' = Thrown("Login failed", "login", TRUE, 3)
             /\ UNCHANGED <<users, activity_log, tokens>>
        ELSE IF tenant = {} \/ \E t \in tenant : t.is_active = 0
        THEN /\ resp' = Response(401, "Invalid credentials", "login", TRUE, 4)
             /\ UNCHANGED <<users, activity_log, tokens>>
        ELSE IF user = {}
        THEN /\ resp' = Response(401, "Invalid credentials", "login", TRUE, 5)
             /\ UNCHANGED <<users, activity_log, tokens>>
        ELSE IF body.password = Undef
        THEN \* bcrypt.compare rejects an undefined password
             /\ resp' = Thrown("Login failed", "login", TRUE, 5)
             /\ UNCHANGED <<users, activity_log, tokens>>
        ELSE
          LET u == CHOOSE x \in user : TRUE
              t == CHOOSE x \in tenant : TRUE
              payload == [userId |-> u.id, tenantId |-> t.id, email |-> u.email, role |-> u.role]
              \* UPDATE users SET last_login = datetime('now') WHERE id = ?
              loggedIn == [users EXCEPT ![u.id].last_login = at \div MsPerSecond]
          IN  IF ~verifyPassword(body.password, u.password_hash)
              THEN /\ resp' = Response(401, "Invalid credentials", "login", TRUE, 5)
                   /\ UNCHANGED <<users, activity_log, tokens>>
              ELSE IF GenerateThrows(payload)
              THEN /\ users' = loggedIn
                   /\ resp' = Thrown("Login failed", "login", TRUE, 6)
                   /\ UNCHANGED <<activity_log, tokens>>
              ELSE /\ users' = loggedIn
                   /\ activity_log' = Append(activity_log,
                        LogRow(NextId(activity_log), t.id, u.id, "login", Null, 0))
                   /\ tokens' = tokens \cup {generateJWT(payload, JwtSecret, at)}
                   /\ resp' = [Response(200, "", "login", TRUE, 7) EXCEPT
                                 !.token = generateJWT(payload, JwtSecret, at),
                                 !.data = {[id |-> u.id, email |-> u.email,
                                            firstName |-> u.first_name,
                                            lastName |-> u.last_name, role |-> u.role,
                                            tenantKey |-> body.tenantKey]}]

(***************************************************************************)
(* Domain rows and queries                                                 *)
(***************************************************************************)

OppTypes == {"new_business", "existing_business", "recompete", "task_order"}
OppStages == {"prospecting", "qualification", "proposal", "negotiation",
              "closed_won", "closed_lost"}
CompanyTypes == {"customer", "partner", "competitor", "teaming_partner"}
CaptureTypes == {"sole", "joint"}
CapturePhases == {"phase0_long_range", "phase1_positioning", "phase2_qualifying",
                  "phase3_solution_dev", "phase4_proposal", "phase5_production"}

\* an optional number of a JSON body is <<>> (undefined) or <<n>>;
\* x || 0
OrZero(x) == IF x = <<>> THEN 0 ELSE x[1]
\* x || null, for a column where <<>> is NULL
OrNull(x) == IF OrZero(x) = 0 THEN <<>> ELSE x
\* x || dflt for a text
OrText(x, dflt) == IF x = Undef THEN dflt ELSE x

\* amount * probability without the division by 100
PercentUndivided(amount, probability) == [num |-> amount * probability, den |-> 1]

\* amount * probability / 100, kept exact as a fraction over 100
Percent(amount, probability) == [num |-> amount * probability, den |-> 100]

\* the company of the same tenant a row points to (LEFT JOIN companies c ON
\* x.company_id = c.id AND x.tenant_id = c.tenant_id)
JoinedCompanyName(row) ==
  IF \E c \in Rows(companies) : c.id = row.company_id /\ c.tenant_id = row.tenant_id
  THEN (CHOOSE c \in Rows(companies) : c.id = row.company_id /\ c.tenant_id = row.tenant_id).name
  ELSE Null

\* u.first_name || ' ' || u.last_name of the joined user, <<>> when none joins
JoinedUserName(userId, sameTenantAs) ==
  IF \E u \in Rows(users) : u.id = userId /\ u.tenant_id \in sameTenantAs
  THEN LET u == CHOOSE x \in Rows(users) : x.id = userId /\ x.tenant_id \in sameTenantAs
       IN  <<u.first_name, u.last_name>>
  ELSE <<>>

AllTenantIds == {t.id : t \in Rows(tenants)}

\* SELECT o.*, c.name, owner FROM opportunities o ... WHERE o.tenant_id = ?
\*   [AND o.stage = ?] [AND o.owner_id = ?]
ListOpportunities(tenantId, query) ==
  {[row |-> o, company_name |-> JoinedCompanyName(o),
    owner_name |-> JoinedUserName(o.owner_id, {o.tenant_id})] :
     o \in {x \in Rows(opportunities) :
              /\ x.tenant_id = tenantId
              /\ (query.stage # Undef => x.stage = query.stage)
              /\ (query.ownerId # <<>> => x.owner_id = query.ownerId[1])}}

\* SELECT c.*, co.name FROM contacts c ... WHERE c.tenant_id = ?
ListContacts(tenantId) ==
  {[row |-> c, company_name |-> JoinedCompanyName(c)] :
     c \in {x \in Rows(contacts) : x.tenant_id = tenantId}}

\* SELECT * FROM companies WHERE tenant_id = ?
ListCompanies(tenantId) ==
  {[row |-> c] : c \in {x \in Rows(companies) : x.tenant_id = tenantId}}

\* the captures list without its WHERE c.tenant_id = ?
ListCapturesOfAllTenants(tenantId) ==
  {[row |-> c, capture_manager_name |-> JoinedUserName(c.capture_manager_id, AllTenantIds)] :
     c \in Rows(captures)}

\* SELECT c.*, manager FROM captures c LEFT JOIN users u ON c.capture_manager_id = u.id
\*   WHERE c.tenant_id = ?
ListCaptures(tenantId) ==
  {[row |-> c, capture_manager_name |-> JoinedUserName(c.capture_manager_id, AllTenantIds)] :
     c \in {x \in Rows(captures) : x.tenant_id = tenantId}}

\* the ownership query without its AND tenant_id = ?
OpportunityOfAnyTenant(idText, tenantId) ==
  {o \in Rows(opportunities) : IsDigits(idText) /\ o.id = FromDigits(idText)}

\* SELECT id FROM opportunities WHERE id = ? AND tenant_id = ?   (id bound as the
\* text of the path parameter, which the INTEGER column compares as a number)
OwnedOpportunity(idText, tenantId) ==
  {o \in Rows(opportunities) :
     IsDigits(idText) /\ o.id = FromDigits(idText) /\ o.tenant_id = tenantId}

\* FOREIGN KEY (company_id) REFERENCES companies(id)
CompanyFkOk(companyId) == companyId = 0 \/ \E c \in Rows(companies) : c.id = companyId

(***************************************************************************)
(* Protected routes                                                        *)
(***************************************************************************)

\* the response when the middleware ends the chain
Rejected(g) == Response(g.status, g.error, "none", FALSE, 0)

\* the request as the handler sees it: c.get('user') is the verified identity
Seen(r, g) == [r EXCEPT !.user = g.user]

\* a handler reached without an identity: user.tenantId throws inside its try
NoIdentity(error, handler) == Response(500, error, handler, FALSE, 0)

GetOpportunities(r, d) ==
  LET at == now + d
      g == Gate(r, at) IN
  /\ r.method = "GET" /\ r.path = PathOpportunities
  /\ req' = Seen(r, g)
  /\ now' = at
  /\ UNCHANGED <<dbVars, tokens, rlLog, jwt>>
  /\ resp' = IF ~g.pass THEN Rejected(g)
             ELSE IF ~g.verified
             THEN NoIdentity("Failed to fetch opportunities", "getOpportunities")
             ELSE [Response(200, "", "getOpportunities", FALSE, 1) EXCEPT
                     !.data = ListOpportunities(g.user.tenantId, r.query)]

GetContacts(r, d) ==
  LET at == now + d
      g == Gate(r, at) IN
  /\ r.method = "GET" /\ r.path = PathContacts
  /\ req' = Seen(r, g)
  /\ now' = at
  /\ UNCHANGED <<dbVars, tokens, rlLog, jwt>>
  /\ resp' = IF ~g.pass THEN Rejected(g)
             ELSE IF ~g.verified
             THEN NoIdentity("Failed to fetch contacts", "getContacts")
             ELSE [Response(200, "", "getContacts", FALSE, 1) EXCEPT
                     !.data = ListContacts(g.user.tenantId)]

GetCompanies(r, d) ==
  LET at == now + d
      g == Gate(r, at) IN
  /\ r.method = "GET" /\ r.path = PathCompanies
  /\ req' = Seen(r, g)
  /\ now' = at
  /\ UNCHANGED <<dbVars, tokens, rlLog, jwt>>
  /\ resp' = IF ~g.pass THEN Rejected(g)
             ELSE IF ~g.verified
             THEN NoIdentity("Failed to fetch companies", "getCompanies")
             ELSE [Response(200, "", "getCompanies", FALSE, 1) EXCEPT
                     !.data = ListCompanies(g.user.tenantId)]

GetCaptures(r, d) ==
  LET at == now + d
      g == Gate(r, at) IN
  /\ r.method = "GET" /\ r.path = PathCaptures
  /\ req' = Seen(r, g)
  /\ now' = at
  /\ UNCHANGED <<dbVars, tokens, rlLog, jwt>>
  /\ resp' = IF ~g.pass THEN Rejected(g)
             ELSE IF ~g.verified
             THEN NoIdentity("Failed to fetch captures", "getCaptures")
             ELSE [Response(200, "", "getCaptures", FALSE, 1) EXCEPT
                     !.data = ListCaptures(g.user.tenantId)]

\* the row POST /api/opportunities binds; data: name, type, stage (whole values
\* or Undef), companyId (0 when absent), amount, probability (optional numbers)
NewOpportunity(user, data) ==
  [id |-> NextId(opportunities),
   tenant_id |-> user.tenantId,
   name |-> data.name,
   company_id |-> data.companyId,
   type |-> data.type,
   stage |-> OrText(data.stage, "prospecting"),
   amount |-> OrNull(data.amount),
   probability |-> OrZero(data.probability),
   expected_revenue |-> Percent(OrZero(data.amount), OrZero(data.probability)),
   owner_id |-> user.userId]

\* binding an undefined value throws before the statement is sent
OpportunityBindThrows(data) == data.name = Undef \/ data.type = Undef

\* CHECK(type IN ...), CHECK(stage IN ...), FOREIGN KEY (company_id)
OpportunityInsertFails(row) ==
  row.type \notin OppTypes \/ row.stage \notin OppStages \/ ~CompanyFkOk(row.company_id)

PostOpportunity(r, d) ==
  LET at == now + d
      g == Gate(r, at)
      user == g.user
      row == NewOpportunity(user, r.body)
  IN
  /\ r.method = "POST" /\ r.path = PathOpportunities
  /\ req' = Seen(r, g)
  /\ now' = at
  /\ UNCHANGED <<tenants, users, companies, contacts, captures, rate_limits,
                 tokens, rlLog, jwt>>
  /\ IF ~g.pass
     THEN resp' = Rejected(g) /\ UNCHANGED <<opportunities, activity_log>>
     ELSE IF ~g.verified
     THEN /\ resp' = NoIdentity("Failed to create opportunity", "postOpportunity")
          /\ UNCHANGED <<opportunities, activity_log>>
     ELSE IF OpportunityBindThrows(r.body)
     THEN /\ resp' = Response(500, "Failed to create opportunity", "postOpportunity", FALSE, 0)
          /\ UNCHANGED <<opportunities, activity_log>>
     ELSE IF OpportunityInsertFails(row)
     THEN /\ resp' = Response(500, "Failed to create opportunity", "postOpportunity", FALSE, 1)
          /\ UNCHANGED <<opportunities, activity_log>>
     ELSE /\ opportunities' = Append(opportunities, row)
          /\ activity_log' = Append(activity_log,
               LogRow(NextId(activity_log), user.tenantId, user.userId, "create",
                      "opportunity", row.id))
          /\ resp' = [Response(201, "", "postOpportunity", FALSE, 3) EXCEPT !.data = {row}]

\* the path parameter of /api/opportunities/:id, <<>> when the path is not of
\* that shape (one further segment)
OpportunityIdParam(path) ==
  LET prefix == PathOpportunities \o <<"/">>
      rest == SubSeq(path, Len(prefix) + 1, Len(path))
  IN  IF StartsWith(path, prefix) /\ Len(rest) > 0 /\ \A i \in 1..Len(rest) : rest[i] # "/"
      THEN rest ELSE <<>>

\* the UPDATE of PUT /api/opportunities/:id applied to the row; data: name, stage
\* (whole values or Undef), amount, probability (optional numbers)
UpdatedOpportunity(o, data) ==
  [o EXCEPT
     !.name = IF data.name # Undef THEN data.name ELSE @,
     !.stage = IF data.stage # Undef THEN data.stage ELSE @,
     !.amount = IF data.amount # <<>> THEN data.amount ELSE @,
     !.probability = IF data.probability # <<>> THEN data.probability[1] ELSE @,
     !.expected_revenue = IF data.probability # <<>>
                          THEN Percent(OrZero(data.amount), data.probability[1]) ELSE @]

PutOpportunity(r, d) ==
  LET at == now + d
      g == Gate(r, at)
      user == g.user
      id == OpportunityIdParam(r.path)
      existing == OwnedOpportunity(id, user.tenantId)
      o == CHOOSE x \in existing : TRUE
      new == UpdatedOpportunity(o, r.body)
  IN
  /\ r.method = "PUT" /\ id # <<>>
  /\ req' = Seen(r, g)
  /\ now' = at
  /\ UNCHANGED <<tenants, users, companies, contacts, captures, activity_log,
                 rate_limits, tokens, rlLog, jwt>>
  /\ IF ~g.pass
     THEN resp' = Rejected(g) /\ UNCHANGED opportunities
     ELSE IF ~g.verified
     THEN /\ resp' = NoIdentity("Failed to update opportunity", "putOpportunity")
          /\ UNCHANGED opportunities
     ELSE IF existing = {}
     THEN /\ resp' = Response(404, "Opportunity not found", "putOpportunity", FALSE, 1)
          /\ UNCHANGED opportunities
     ELSE IF new.stage \notin OppStages
     THEN /\ resp' = Response(500, "Failed to update opportunity", "putOpportunity", FALSE, 2)
          /\ UNCHANGED opportunities
     ELSE /\ opportunities' = [opportunities EXCEPT ![o.id] = new]
          /\ resp' = [Response(200, "", "putOpportunity", FALSE, 3) EXCEPT !.data = {new}]

\* the contact row with the tenant named by the body
NewContactOfBodyTenant(user, data) ==
  [id |-> NextId(contacts), tenant_id |-> data.tenantId,
   first_name |-> data.firstName, last_name |-> data.lastName,
   company_id |-> data.companyId]

\* data: firstName, lastName (whole values or Undef), companyId (0 when absent)
NewContact(user, data) ==
  [id |-> NextId(contacts), tenant_id |-> user.tenantId,
   first_name |-> data.firstName, last_name |-> data.lastName,
   company_id |-> data.companyId]

PostContact(r, d) ==
  LET at == now + d
      g == Gate(r, at)
      user == g.user
      row == NewContact(user, r.body)
  IN
  /\ r.method = "POST" /\ r.path = PathContacts
  /\ req' = Seen(r, g)
  /\ now' = at
  /\ UNCHANGED <<tenants, users, companies, opportunities, captures, activity_log,
                 rate_limits, tokens, rlLog, jwt>>
  /\ IF ~g.pass
     THEN resp' = Rejected(g) /\ UNCHANGED contacts
     ELSE IF ~g.verified
     THEN resp' = NoIdentity("Failed to create contact", "postContact") /\ UNCHANGED contacts
     ELSE IF r.body.firstName = Undef \/ r.body.lastName = Undef
     THEN /\ resp' = Response(500, "Failed to create contact", "postContact", FALSE, 0)
          /\ UNCHANGED contacts
     ELSE IF ~CompanyFkOk(row.company_id)
     THEN /\ resp' = Response(500, "Failed to create contact", "postContact", FALSE, 1)
          /\ UNCHANGED contacts
     ELSE /\ contacts' = Append(contacts, row)
          /\ resp' = [Response(201, "", "postContact", FALSE, 2) EXCEPT !.data = {row}]

\* data: name, type (whole values or Undef)
NewCompany(user, data) ==
  [id |-> NextId(companies), tenant_id |-> user.tenantId, name |-> data.name,
   type |-> OrText(data.type, "customer")]

PostCompany(r, d) ==
  LET at == now + d
      g == Gate(r, at)
      user == g.user
      row == NewCompany(user, r.body)
  IN
  /\ r.method = "POST" /\ r.path = PathCompanies
  /\ req' = Seen(r, g)
  /\ now' = at
  /\ UNCHANGED <<tenants, users, contacts, opportunities, captures, activity_log,
                 rate_limits, tokens, rlLog, jwt>>
  /\ IF ~g.pass
     THEN resp' = Rejected(g) /\ UNCHANGED companies
     ELSE IF ~g.verified
     THEN resp' = NoIdentity("Failed to create company", "postCompany") /\ UNCHANGED companies
     ELSE IF r.body.name = Undef
     THEN /\ resp' = Response(500, "Failed to create company", "postCompany", FALSE, 0)
          /\ UNCHANGED companies
     ELSE IF row.type \notin CompanyTypes
     THEN /\ resp' = Response(500, "Failed to create company", "postCompany", FALSE, 1)
          /\ UNCHANGED companies
     ELSE /\ companies' = Append(companies, row)
          /\ resp' = [Response(201, "", "postCompany", FALSE, 2) EXCEPT !.data = {row}]

\* data: name, customerName, captureType, currentPhase (whole values or Undef)
NewCapture(user, data) ==
  [id |-> NextId(captures), tenant_id |-> user.tenantId, name |-> data.name,
   customer_name |-> data.customerName, capture_type |-> data.captureType,
   current_phase |-> OrText(data.currentPhase, "phase0_long_range"),
   capture_manager_id |-> user.userId]

PostCapture(r, d) ==
  LET at == now + d
      g == Gate(r, at)
      user == g.user
      row == NewCapture(user, r.body)
  IN
  /\ r.method = "POST" /\ r.path = PathCaptures
  /\ req' = Seen(r, g)
  /\ now' = at
  /\ UNCHANGED <<tenants, users, companies, contacts, opportunities, activity_log,
                 rate_limits, tokens, rlLog, jwt>>
  /\ IF ~g.pass
     THEN resp' = Rejected(g) /\ UNCHANGED captures
     ELSE IF ~g.verified
     THEN resp' = NoIdentity("Failed to create capture", "postCapture") /\ UNCHANGED captures
     ELSE IF r.body.name = Undef \/ r.body.customerName = Undef \/ r.body.captureType = Undef
     THEN /\ resp' = Response(500, "Failed to create capture", "postCapture", FALSE, 0)
          /\ UNCHANGED captures
     ELSE IF row.capture_type \notin CaptureTypes \/ row.current_phase \notin CapturePhases
     THEN /\ resp' = Response(500, "Failed to create capture", "postCapture", FALSE, 1)
          /\ UNCHANGED captures
     ELSE /\ captures' = Append(captures, row)
          /\ resp' = [Response(201, "", "postCapture", FALSE, 2) EXCEPT !.data = {row}]

(***************************************************************************)
(* Dashboards                                                              *)
(***************************************************************************)

PathKpis == <<"/", "a", "p", "i", "/", "d", "a", "s", "h", "b", "o", "a", "r", "d", "/", "k", "p", "i", "s">>
PathPipeline == <<"/", "a", "p", "i", "/", "d", "a", "s", "h", "b", "o", "a", "r", "d", "/",
                  "p", "i", "p", "e", "l", "i", "n", "e", "-", "b", "y", "-", "s", "t", "a", "g", "e">>

ClosedStages == {"closed_won", "closed_lost"}

\* SUM(amount) over rows; a NULL amount adds nothing
RECURSIVE SumAmount(_)
SumAmount(rows) ==
  IF rows = {} THEN 0
  ELSE LET r == CHOOSE x \in rows : TRUE
       IN  OrZero(r.amount) + SumAmount(rows \ {r})

\* SUM(expected_revenue) over rows, in hundredths
RECURSIVE SumExpected(_)
SumExpected(rows) ==
  IF rows = {} THEN 0
  ELSE LET r == CHOOSE x \in rows : TRUE
       IN  r.expected_revenue.num + SumExpected(rows \ {r})

\* the four figures of GET /api/dashboard/kpis for a tenant
Kpis(tenantId) ==
  LET mine == {o \in Rows(opportunities) : o.tenant_id = tenantId}
      won == {o \in mine : o.stage = "closed_won"}
      closed == {o \in mine : o.stage \in ClosedStages}
      open == mine \ closed
  IN  [totalRevenue |-> SumAmount(won),
       openOpportunities |-> Cardinality(open),
       winRate |-> IF closed = {} THEN [num |-> 0, den |-> 1]
                   ELSE [num |-> Cardinality(won) * 100, den |-> Cardinality(closed)],
       pipelineValue |-> [num |-> SumExpected(open), den |-> 100]]

\* SELECT stage, COUNT(*), COALESCE(SUM(amount), 0) ... GROUP BY stage
PipelineByStage(tenantId) ==
  LET open == {o \in Rows(opportunities) :
                 o.tenant_id = tenantId /\ o.stage \notin ClosedStages}
  IN  {[stage |-> st,
        count |-> Cardinality({o \in open : o.stage = st}),
        value |-> SumAmount({o \in open : o.stage = st})] :
         st \in {o.stage : o \in open}}

GetKpis(r, d) ==
  LET at == now + d
      g == Gate(r, at) IN
  /\ r.method = "GET" /\ r.path = PathKpis
  /\ req' = Seen(r, g)
  /\ now' = at
  /\ UNCHANGED <<dbVars, tokens, rlLog, jwt>>
  /\ resp' = IF ~g.pass THEN Rejected(g)
             ELSE IF ~g.verified THEN NoIdentity("Failed to fetch KPIs", "getKpis")
             ELSE [Response(200, "", "getKpis", FALSE, 4) EXCEPT
                     !.data = {Kpis(g.user.tenantId)}]

GetPipelineByStage(r, d) ==
  LET at == now + d
      g == Gate(r, at) IN
  /\ r.method = "GET" /\ r.path = PathPipeline
  /\ req' = Seen(r, g)
  /\ now' = at
  /\ UNCHANGED <<dbVars, tokens, rlLog, jwt>>
  /\ resp' = IF ~g.pass THEN Rejected(g)
             ELSE IF ~g.verified
             THEN NoIdentity("Failed to fetch pipeline data", "getPipelineByStage")
             ELSE [Response(200, "", "getPipelineByStage", FALSE, 1) EXCEPT
                     !.data = PipelineByStage(g.user.tenantId)]

\* the routes registered on the app
IsRoute(method, path) ==
  \/ method = "POST" /\ path \in {PathRegister, PathLogin}
  \/ method \in {"GET", "POST"}
       /\ path \in {PathOpportunities, PathContacts, PathCompanies, PathCaptures}
  \/ method = "PUT" /\ OpportunityIdParam(path) # <<>>
  \/ method = "GET" /\ path \in {PathKpis, PathPipeline}
  \/ method = "GET" /\ path = PathHealth

\* a request no route matches: the middleware runs (under /api/), then Hono's
\* not-found handler answers
Unrouted(r, d) ==
  LET at == now + d
      g == Gate(r, at) IN
  /\ ~IsRoute(r.method, r.path)
  /\ req' = Seen(r, g)
  /\ now' = at
  /\ UNCHANGED <<dbVars, tokens, rlLog, jwt>>
  /\ resp' = IF ~g.pass THEN Rejected(g)
             ELSE Response(404, "404 Not Found", "none", FALSE, 0)

\* GET /health
Health(r, d) ==
  LET at == now + d
      g == Gate(r, at) IN
  /\ r.method = "GET" /\ r.path = PathHealth
  /\ req' = Seen(r, g)
  /\ now' = at
  /\ UNCHANGED <<dbVars, tokens, rlLog, jwt>>
  /\ resp' = Response(200, "", "health", FALSE, 0)

(***************************************************************************)
(* Clients                                                                 *)
(***************************************************************************)

Ip1 == <<"1", ".", "1">>
Ip2 == <<"2", ".", "2">>

AcmeCorp == <<"A", "c", "m", "e", " ", "C", "o", "r", "p">>
AcmeCorpAgain == <<"A", "C", "M", "E", " ", " ", "c", "o", "r", "p", "!">>
BetaInc == <<"B", "e", "t", "a">>
EmailA == <<"a", "@", "x">>
EmailB == <<"b", "@", "x">>
\* an e-mail address with a character outside Latin-1
EmailZ == <<NonLatin1, "@", "x">>

RegBody(companyName, email, password, firstName, lastName) ==
  [companyName |-> companyName, email |-> email, password |-> password,
   firstName |-> firstName, lastName |-> lastName]

LoginBody(tenantKey, email, password) ==
  [tenantKey |-> tenantKey, email |-> email, password |-> password]

\* a token signed with a key that is not the server's
ForgedToken == generateJWT([userId |-> 1, tenantId |-> 1, email |-> EmailA, role |-> RoleAdmin],
                           <<"x">>, 0)

\* t with the character at position i replaced by c
Altered(t, i, c) == [t EXCEPT ![i] = c]

\* position of the first character of the n-th '.'-separated segment of t
SegmentStart(t, n) ==
  IF n = 1 THEN 1
  ELSE 1 + (CHOOSE i \in 1..Len(t) :
              t[i] = "." /\ Cardinality({j \in 1..i : t[j] = "."}) = n - 1)

\* what a client may do to a token it holds: change a character of the payload
\* (the tenant id digit) or of the signature, drop the signature
Tampered(t) ==
  {Altered(t, SegmentStart(t, 2) + 2, "C"),
   Altered(t, Len(t), "A"),
   SubSeq(t, 1, SegmentStart(t, 3) - 2)} \ {t}

\* the Authorization headers of clients that use the API as documented
PlainHeaders == {NoHeader} \cup {BearerPrefix \o t : t \in tokens}

\* all the Authorization headers requests carry: also another scheme, a token
\* without the scheme, a forged token, tokens tampered with
AuthHeaders ==
  PlainHeaders
    \cup {<<"B", "a", "s", "i", "c", " ", "x">>, BearerPrefix \o ForgedToken}
    \cup {BearerPrefix \o u : u \in UNION {Tampered(t) : t \in tokens}}
    \cup {t : t \in tokens}

ApiRequest(method, path, auth, query, body) ==
  [method |-> method, path |-> path, ip |-> Ip1, auth |-> auth, user |-> NoUser,
   query |-> query, body |-> body]

NoQuery == [stage |-> Undef, ownerId |-> <<>>]
NoBody == [none |-> TRUE]

OppBody(name, type, companyId, stage, amount, probability) ==
  [name |-> name, type |-> type, companyId |-> companyId, stage |-> stage,
   amount |-> amount, probability |-> probability, tenantId |-> 1]

OppPatch(name, stage, amount, probability) ==
  [name |-> name, stage |-> stage, amount |-> amount, probability |-> probability]

(***************************************************************************)
(* Runs                                                                    *)
(*                                                                         *)
(* Requests are handled one at a time, each arriving d ms after the one    *)
(* before.  A bound counts the steps that change the database, the tokens  *)
(* handed out or the clock.  A request that changes none of these leaves   *)
(* no trace but req and resp, so the requests that may follow it are the   *)
(* ones that could have come in its place: a run is explored up to its     *)
(* first such request.                                                     *)
(***************************************************************************)

Init ==
  /\ now = 0
  /\ tenants = <<>> /\ users = <<>> /\ companies = <<>> /\ contacts = <<>>
  /\ opportunities = <<>> /\ captures = <<>> /\ activity_log = <<>>
  /\ rate_limits = {}
  /\ tokens = {}
  /\ req = NoRequest
  /\ resp = NoResponse
  /\ rlLog = <<>>
  /\ jwt = <<>>
  /\ steps = 0
  /\ idle = FALSE
  /\ inflight = <<>>
  /\ browser = <<>>

\* a further request is considered
Ready == ~idle

\* the step is counted
Step(max) ==
  /\ idle' = (<<now, dbVars, tokens, rlLog, jwt>>' = <<now, dbVars, tokens, rlLog, jwt>>)
  /\ steps' = IF idle' THEN steps ELSE steps + 1
  /\ steps' <= max
  /\ UNCHANGED <<inflight, browser>>

(***************************************************************************)
(* Spec: two tenants using the API as documented                           *)
(***************************************************************************)

MaxSteps == 5

RegisterBodies ==
  {RegBody(AcmeCorp, EmailA, "pw1", "Ann", "A"),
   RegBody(BetaInc, EmailB, "pw2", "Bob", "B")}

LoginBodies ==
  {LoginBody(TenantKeyOf(AcmeCorp), EmailA, "pw1"),
   LoginBody(TenantKeyOf(BetaInc), EmailB, "pw2")}

OppBodies == {OppBody("Deal", "new_business", 0, Undef, <<2500000>>, <<60>>)}
OppPatches == {OppPatch(Undef, "proposal", <<>>, <<>>),
               OppPatch(Undef, "prospecting", <<>>, <<>>)}
OppQueries == {NoQuery, [stage |-> "proposal", ownerId |-> <<1>>]}
OppIdPaths == {PathOpportunities \o <<"/", "1">>, PathOpportunities \o <<"/", "2">>}
ContactBodies == {[firstName |-> "John", lastName |-> "Anderson", companyId |-> 0]}
CompanyBodies == {[name |-> "Agency", type |-> Undef]}
CaptureBodies == {[name |-> "Bid", customerName |-> "DoD", captureType |-> "joint",
                   currentPhase |-> Undef]}

DoRegister ==
  /\ Ready
  /\ \E b \in RegisterBodies :
       \E first \in RlFirstChoices(rate_limits, b.email, PathRegister, now) :
         Register(Ip1, b, first, 0)
  /\ Step(MaxSteps)

DoLogin ==
  /\ Ready
  /\ \E b \in LoginBodies :
       \E first \in RlFirstChoices(rate_limits, b.email, PathLogin, now) :
         Login(Ip1, b, first, 0)
  /\ Step(MaxSteps)

DoGetOpportunities ==
  /\ Ready
  /\ \E a \in PlainHeaders, q \in OppQueries :
       GetOpportunities(ApiRequest("GET", PathOpportunities, a, q, NoBody), 0)
  /\ Step(MaxSteps)

DoGetContacts ==
  /\ Ready
  /\ \E a \in PlainHeaders :
       GetContacts(ApiRequest("GET", PathContacts, a, NoQuery, NoBody), 0)
  /\ Step(MaxSteps)

DoGetCompanies ==
  /\ Ready
  /\ \E a \in PlainHeaders :
       GetCompanies(ApiRequest("GET", PathCompanies, a, NoQuery, NoBody), 0)
  /\ Step(MaxSteps)

DoGetCaptures ==
  /\ Ready
  /\ \E a \in PlainHeaders :
       GetCaptures(ApiRequest("GET", PathCaptures, a, NoQuery, NoBody), 0)
  /\ Step(MaxSteps)

DoPostOpportunity ==
  /\ Ready
  /\ \E a \in PlainHeaders, b \in OppBodies :
       PostOpportunity(ApiRequest("POST", PathOpportunities, a, NoQuery, b), 0)
  /\ Step(MaxSteps)

DoPutOpportunity ==
  /\ Ready
  /\ \E a \in PlainHeaders, p \in OppIdPaths, b \in OppPatches :
       PutOpportunity(ApiRequest("PUT", p, a, NoQuery, b), 0)
  /\ Step(MaxSteps)

DoPostContact ==
  /\ Ready
  /\ \E a \in PlainHeaders, b \in ContactBodies :
       PostContact(ApiRequest("POST", PathContacts, a, NoQuery, b), 0)
  /\ Step(MaxSteps)

DoPostCompany ==
  /\ Ready
  /\ \E a \in PlainHeaders, b \in CompanyBodies :
       PostCompany(ApiRequest("POST", PathCompanies, a, NoQuery, b), 0)
  /\ Step(MaxSteps)

DoPostCapture ==
  /\ Ready
  /\ \E a \in PlainHeaders, b \in CaptureBodies :
       PostCapture(ApiRequest("POST", PathCaptures, a, NoQuery, b), 0)
  /\ Step(MaxSteps)

Next ==
  \/ DoRegister
  \/ DoLogin
  \/ DoGetOpportunities
  \/ DoGetContacts
  \/ DoGetCompanies
  \/ DoGetCaptures
  \/ DoPostOpportunity
  \/ DoPutOpportunity
  \/ DoPostContact
  \/ DoPostCompany
  \/ DoPostCapture

Spec == Init /\ [][Next]_vars

(***************************************************************************)
(* Properties of Spec                                                      *)
(***************************************************************************)

ListHandlers == {"getOpportunities", "getContacts", "getCompanies", "getCaptures"}

ProtectedHandlers ==
  ListHandlers \cup {"postOpportunity", "putOpportunity", "postContact", "postCompany",
                     "postCapture", "getKpis", "getPipelineByStage"}

\* the table a list handler reads
ListedTable(handler) ==
  CASE handler = "getOpportunities" -> opportunities
    [] handler = "getContacts" -> contacts
    [] handler = "getCompanies" -> companies
    [] handler = "getCaptures" -> captures

\* the rows of other tenants in the table the last request listed
ForeignRows == {x \in Rows(ListedTable(resp.handler)) : x.tenant_id # req.user.tenantId}

\* C1: a list request (opportunities, contacts, companies, captures) answered
\* 200 was made by a user of the tenant B its token names, and returns only
\* rows of its table whose tenant_id is B (all of them when the request carries
\* no filter): no row of another tenant appears.
C1_ListsAreTenantScoped ==
  (resp.handler \in ListHandlers /\ resp.status = 200) =>
    /\ \E u \in Rows(users) : u.id = req.user.userId /\ u.tenant_id = req.user.tenantId
    /\ \A x \in resp.data : x.row.tenant_id = req.user.tenantId
    /\ {x.row : x \in resp.data} \subseteq Rows(ListedTable(resp.handler)) \ ForeignRows
    /\ req.query = NoQuery =>
         {x.row : x \in resp.data} = Rows(ListedTable(resp.handler)) \ ForeignRows

\* C1 witness: a tenant lists a table that holds a row of another tenant.
C1_ListedBesideForeignRow ==
  /\ resp.handler \in ListHandlers
  /\ resp.status = 200
  /\ ForeignRows # {}

\* the opportunity rows a path parameter names, whoever owns them
RowsNamed(idText) ==
  {o \in Rows(opportunities) : IsDigits(idText) /\ ToDigits(o.id) = idText}

C7_ProtectedRequestsPassTheLimiter ==
  (resp.handler \in ProtectedHandlers /\ resp.status \in {200, 201}) =>
    /\ resp.rateChecked
    /\ \E i \in 1..Len(rlLog) : rlLog[i].endpoint = req.path

(***************************************************************************)
(* SpecGate: one tenant; requests to every route with every kind of        *)
(* Authorization header, right away or after the token's lifetime          *)
(***************************************************************************)

MaxGateSteps == 3

\* a request arrives at once, or a second after the lifetime of a token
GateDelays == {0, (TokenLifetimeSeconds + 1) * MsPerSecond}

GateRegisterBodies == {RegBody(AcmeCorp, EmailA, "pw1", "Ann", "A")}
GateLoginBodies == {LoginBody(TenantKeyOf(AcmeCorp), EmailA, "pw1")}

GateIdPaths == {PathOpportunities \o <<"/", "1">>}
GatePatches == {OppPatch("Deal 2", Undef, <<3000000>>, <<50>>)}

\* paths under /api/ no route is registered for; the second contains '/auth/login'
UnknownPath == <<"/", "a", "p", "i", "/", "x">>
BypassPath == UnknownPath \o AuthLoginText

DoGateRegister ==
  /\ Ready
  /\ \E b \in GateRegisterBodies :
       \E first \in RlFirstChoices(rate_limits, b.email, PathRegister, now) :
         Register(Ip1, b, first, 0)
  /\ Step(MaxGateSteps)

DoGateLogin ==
  /\ Ready
  /\ \E b \in GateLoginBodies :
       \E first \in RlFirstChoices(rate_limits, b.email, PathLogin, now) :
         Login(Ip1, b, first, 0)
  /\ Step(MaxGateSteps)

DoGateGetOpportunities ==
  /\ Ready
  /\ \E a \in AuthHeaders, d \in GateDelays :
       GetOpportunities(ApiRequest("GET", PathOpportunities, a, NoQuery, NoBody), d)
  /\ Step(MaxGateSteps)

DoGateGetContacts ==
  /\ Ready
  /\ \E a \in AuthHeaders, d \in GateDelays :
       GetContacts(ApiRequest("GET", PathContacts, a, NoQuery, NoBody), d)
  /\ Step(MaxGateSteps)

DoGateGetCompanies ==
  /\ Ready
  /\ \E a \in AuthHeaders, d \in GateDelays :
       GetCompanies(ApiRequest("GET", PathCompanies, a, NoQuery, NoBody), d)
  /\ Step(MaxGateSteps)

DoGateGetCaptures ==
  /\ Ready
  /\ \E a \in AuthHeaders, d \in GateDelays :
       GetCaptures(ApiRequest("GET", PathCaptures, a, NoQuery, NoBody), d)
  /\ Step(MaxGateSteps)

DoGateGetKpis ==
  /\ Ready
  /\ \E a \in AuthHeaders, d \in GateDelays :
       GetKpis(ApiRequest("GET", PathKpis, a, NoQuery, NoBody), d)
  /\ Step(MaxGateSteps)

DoGateGetPipelineByStage ==
  /\ Ready
  /\ \E a \in AuthHeaders, d \in GateDelays :
       GetPipelineByStage(ApiRequest("GET", PathPipeline, a, NoQuery, NoBody), d)
  /\ Step(MaxGateSteps)

DoGatePostOpportunity ==
  /\ Ready
  /\ \E a \in AuthHeaders, d \in GateDelays, b \in OppBodies :
       PostOpportunity(ApiRequest("POST", PathOpportunities, a, NoQuery, b), d)
  /\ Step(MaxGateSteps)

DoGatePutOpportunity ==
  /\ Ready
  /\ \E a \in AuthHeaders, d \in GateDelays, p \in GateIdPaths, b \in GatePatches :
       PutOpportunity(ApiRequest("PUT", p, a, NoQuery, b), d)
  /\ Step(MaxGateSteps)

DoGatePostContact ==
  /\ Ready
  /\ \E a \in AuthHeaders, d \in GateDelays, b \in ContactBodies :
       PostContact(ApiRequest("POST", PathContacts, a, NoQuery, b), d)
  /\ Step(MaxGateSteps)

DoGatePostCompany ==
  /\ Ready
  /\ \E a \in AuthHeaders, d \in GateDelays, b \in CompanyBodies :
       PostCompany(ApiRequest("POST", PathCompanies, a, NoQuery, b), d)
  /\ Step(MaxGateSteps)

DoGatePostCapture ==
  /\ Ready
  /\ \E a \in AuthHeaders, d \in GateDelays, b \in CaptureBodies :
       PostCapture(ApiRequest("POST", PathCaptures, a, NoQuery, b), d)
  /\ Step(MaxGateSteps)

DoGateUnrouted ==
  /\ Ready
  /\ \E a \in AuthHeaders, d \in GateDelays, p \in {UnknownPath, BypassPath} :
       Unrouted(ApiRequest("GET", p, a, NoQuery, NoBody), d)
  /\ Step(MaxGateSteps)

DoGateHealth ==
  /\ Ready
  /\ \E a \in PlainHeaders, d \in GateDelays :
       Health(ApiRequest("GET", PathHealth, a, NoQuery, NoBody), d)
  /\ Step(MaxGateSteps)

NextGate ==
  \/ DoGateRegister
  \/ DoGateLogin
  \/ DoGateGetOpportunities
  \/ DoGateGetContacts
  \/ DoGateGetCompanies
  \/ DoGateGetCaptures
  \/ DoGateGetKpis
  \/ DoGateGetPipelineByStage
  \/ DoGatePostOpportunity
  \/ DoGatePutOpportunity
  \/ DoGatePostContact
  \/ DoGatePostCompany
  \/ DoGatePostCapture
  \/ DoGateUnrouted
  \/ DoGateHealth

SpecGate == Init /\ [][NextGate]_vars

(***************************************************************************)
(* Properties of SpecGate                                                  *)
(***************************************************************************)

\* a registered route under /api/ other than login and register
IsProtectedRoute(method, path) ==
  IsRoute(method, path) /\ UnderApi(path) /\ path \notin {PathRegister, PathLogin}

\* the token of a Bearer header
BearerToken(auth) == SubSeq(auth, Len(BearerPrefix) + 1, Len(auth))

\* the header is absent, is not a Bearer header, or its token fails
\* verification at clock reading t
BadCredentials(auth, t) ==
  \/ auth = NoHeader
  \/ ~StartsWith(auth, BearerPrefix)
  \/ ~verifyJWT(BearerToken(auth), JwtSecret, t).ok

\* C3: a request to a protected route whose Authorization header is absent,
\* is not a Bearer header or carries a token that fails verification is
\* answered 401 with no handler run, no statement issued and the database as
\* it was; and when a protected handler ran, the request's token had verified
\* and the handler saw the identity of its payload.
C3_GateBeforeHandlers ==
  [][/\ (IsProtectedRoute(req'.method, req'.path) /\ BadCredentials(req'.auth, now'))
          => (/\ resp'.status = 401
              /\ resp'.handler = "none"
              /\ resp'.stmts = 0
              /\ dbVars' = dbVars)
     /\ resp'.handler \in ProtectedHandlers
          => (/\ ~BadCredentials(req'.auth, now')
              /\ LET v == verifyJWT(BearerToken(req'.auth), JwtSecret, now').payload
                 IN  req'.user = [userId |-> v.userId, tenantId |-> v.tenantId,
                                  email |-> v.email, role |-> v.role])]_vars

\* C3 witness: a request to a protected route that carried an issued token,
\* tampered with or past its lifetime, was answered 401.
C3_BadTokenRefused ==
  /\ IsProtectedRoute(req.method, req.path)
  /\ resp.status = 401
  /\ resp.error = "Invalid token"
  /\ \E t \in tokens :
       \/ req.auth \in {BearerPrefix \o u : u \in Tampered(t)}
       \/ req.auth = BearerPrefix \o t /\ verifyJWT(t, JwtSecret, now).error = "Token expired"

(***************************************************************************)
(* SpecJwt: generateJWT and verifyJWT on their own.  A token is issued for *)
(* a payload and a secret, one character of its payload or signature       *)
(* segment may be replaced, and it is verified with the same secret.       *)
(***************************************************************************)

JwtPayloads ==
  {[userId |-> 1, tenantId |-> 1, email |-> EmailA, role |-> RoleAdmin],
   [userId |-> 7, tenantId |-> 2, email |-> EmailB, role |-> <<"u", "s", "e", "r">>],
   [userId |-> 3, tenantId |-> 3, email |-> EmailZ, role |-> RoleAdmin]}

JwtSecrets == {JwtSecret, <<"k">>}

\* clock readings (ms) at which a token is issued, and the time to its
\* verification: none, 24 hours, 24 hours and a part of a second, 24 hours
\* and a second
JwtIssueDelays == {0, 1500}
JwtVerifyDelays ==
  {0, TokenLifetimeSeconds * MsPerSecond, TokenLifetimeSeconds * MsPerSecond + 499,
   TokenLifetimeSeconds * MsPerSecond + 500, (TokenLifetimeSeconds + 1) * MsPerSecond}

\* the characters a character of a token is replaced by
AlterChars == {"A", "B", "0", "=", ".", "_"}

NoResult == [ok |-> FALSE, error |-> "(none)", payload |-> NoPayload]

\* the positions of the payload and signature segments of a token
AlterPositions(t) == {i \in SegmentStart(t, 2)..Len(t) : t[i] # "."}

JwtIssue ==
  /\ jwt = <<>>
  /\ \E p \in JwtPayloads, s \in JwtSecrets, d \in JwtIssueDelays :
       /\ now' = now + d
       /\ jwt' = [payload |-> p, secret |-> s, issuedAt |-> now + d,
                  thrown |-> GenerateThrows(p),
                  token |-> IF GenerateThrows(p) THEN <<>> ELSE generateJWT(p, s, now + d),
                  altered |-> FALSE, verifiedAt |-> 0, result |-> NoResult]
  /\ UNCHANGED <<dbVars, tokens, req, resp, rlLog, steps, idle, inflight, browser>>

JwtAlter ==
  /\ jwt # <<>>
  /\ ~jwt.thrown /\ ~jwt.altered /\ jwt.result = NoResult
  /\ \E i \in AlterPositions(jwt.token), c \in AlterChars :
       /\ c # jwt.token[i]
       /\ jwt' = [jwt EXCEPT !.token = Altered(jwt.token, i, c), !.altered = TRUE]
  /\ UNCHANGED <<now, dbVars, tokens, req, resp, rlLog, steps, idle, inflight, browser>>

JwtVerify ==
  /\ jwt # <<>>
  /\ ~jwt.thrown /\ jwt.result = NoResult
  /\ \E d \in JwtVerifyDelays :
       /\ now' = now + d
       /\ jwt' = [jwt EXCEPT !.result = verifyJWT(jwt.token, jwt.secret, now + d),
                             !.verifiedAt = now + d]
  /\ UNCHANGED <<dbVars, tokens, req, resp, rlLog, steps, idle, inflight, browser>>

NextJwt ==
  \/ JwtIssue
  \/ JwtAlter
  \/ JwtVerify

SpecJwt == Init /\ [][NextJwt]_vars

(***************************************************************************)
(* Properties of SpecJwt                                                   *)
(***************************************************************************)

\* an issued token was verified as issued / after a replacement
VerifiedIntact == jwt # <<>> /\ ~jwt.thrown /\ ~jwt.altered /\ jwt.result # NoResult
VerifiedAltered == jwt # <<>> /\ jwt.altered /\ jwt.result # NoResult

\* the result carries the payload the token was issued for, exp being
\* iat + 86400
SamePayload ==
  /\ jwt.result.ok
  /\ jwt.result.payload.userId = jwt.payload.userId
  /\ jwt.result.payload.tenantId = jwt.payload.tenantId
  /\ jwt.result.payload.email = jwt.payload.email
  /\ jwt.result.payload.role = jwt.payload.role
  /\ jwt.result.payload.exp = jwt.result.payload.iat + TokenLifetimeSeconds

Expired == ~jwt.result.ok /\ jwt.result.error = "Token expired"

\* C4, as stated: a token verified with its secret t - t0 after its issue
\* yields the payload it was issued for when t - t0 is at most 24 hours, and
\* 'Token expired' when t - t0 exceeds 24 hours.
C4_ExpiryByElapsedTime ==
  VerifiedIntact =>
    IF jwt.verifiedAt - jwt.issuedAt <= TokenLifetimeSeconds * MsPerSecond
    THEN SamePayload ELSE Expired

\* C4, amended: the two clock readings count in whole seconds.  The token
\* yields its payload when floor(t / 1000) - floor(t0 / 1000) is at most
\* 86400, and 'Token expired' when that difference exceeds 86400.
C4_ExpiryByWholeSeconds ==
  VerifiedIntact =>
    IF (jwt.verifiedAt \div MsPerSecond) - (jwt.issuedAt \div MsPerSecond)
         <= TokenLifetimeSeconds
    THEN SamePayload ELSE Expired

\* C4 witness: a token verified more than 24 hours after its issue, within the
\* same whole second as its expiry, yielded its payload.
C4_AcceptedWithinTheLastSecond ==
  /\ VerifiedIntact
  /\ jwt.verifiedAt - jwt.issuedAt > TokenLifetimeSeconds * MsPerSecond
  /\ SamePayload

\* C5: a token with one character of its payload or signature segment replaced
\* fails verification with 'Invalid signature', whatever the payload would
\* decode to and whether or not the token's lifetime is over.
C5_AlteredTokenHasInvalidSignature ==
  VerifiedAltered => (~jwt.result.ok /\ jwt.result.error = "Invalid signature")

\* C5 witness: an altered token verified after the lifetime of the original
\* was refused for its signature.
C5_AlteredAndLate ==
  /\ VerifiedAltered
  /\ jwt.verifiedAt - jwt.issuedAt > TokenLifetimeSeconds * MsPerSecond
  /\ jwt.result.error = "Invalid signature"

(***************************************************************************)
(* SpecRate: one e-mail address registering again and again, at the same   *)
(* millisecond, a millisecond later or a window later                      *)
(***************************************************************************)

MaxRateSteps == 6

\* the registrations: body and delay (ms) after the request before
RateRequests ==
  {<<RegBody(AcmeCorp, EmailA, "pw1", "Ann", "A"), 0>>,
   <<RegBody(AcmeCorp, EmailA, "pw1", "Ann", "A"), 1>>,
   <<RegBody(AcmeCorp, EmailA, "pw1", "Ann", "A"), WindowMs>>,
   <<RegBody(AcmeCorpAgain, EmailA, "pw1", "Ann", "A"), 0>>,
   <<RegBody(AcmeCorp, EmailA, Undef, "Ann", "A"), 0>>}

DoRateRegister ==
  /\ Ready
  /\ \E q \in RateRequests :
       \E first \in RlFirstChoices(rate_limits, q[1].email, PathRegister, now + q[2]) :
         Register(Ip1, q[1], first, q[2])
  /\ Step(MaxRateSteps)

NextRate == DoRateRegister

SpecRate == Init /\ [][NextRate]_vars

(***************************************************************************)
(* Properties of SpecRate                                                  *)
(***************************************************************************)

\* the calls before the i-th that rateLimit allowed for the same identifier
\* and endpoint at most a window before it
AllowedBefore(i) ==
  {j \in 1..(i - 1) : /\ rlLog[j].identifier = rlLog[i].identifier
                      /\ rlLog[j].endpoint = rlLog[i].endpoint
                      /\ rlLog[j].allowed
                      /\ rlLog[i].at - rlLog[j].at <= WindowMs}

\* C6: a call of rateLimit is rejected when the limit L of calls by its
\* identifier to its endpoint were allowed within the 60 seconds before it,
\* and allowed when fewer were.
C6_LimitEnforcedInWindow ==
  \A i \in 1..Len(rlLog) :
    rlLog[i].allowed <=> Cardinality(AllowedBefore(i)) < rlLog[i].limit

\* the rateLimit call of the request handled last let it through
Allowed == rlLog # <<>> /\ rlLog[Len(rlLog)].allowed

AcmeKey == <<"a", "c", "m", "e", "-", "c", "o", "r", "p">>

\* the register request req', handled in this step, finds its tenant key held
KeyHeld == \E t \in Rows(tenants) : t.tenant_key = TenantKeyOf(req'.body.companyName)

AcmeHeld == \E t \in Rows(tenants) : t.tenant_key = AcmeKey

Complete(body) == body.password # Undef /\ body.firstName # Undef /\ body.lastName # Undef

DuplicateRefused ==
  /\ resp'.status = 400
  /\ resp'.error = "Company name already registered"
  /\ tenants' = tenants
  /\ users' = users

WindowOf(iso) == SubSeq(iso, 1, 3)

\* the calls rateLimit allowed for the row's identifier and endpoint in the
\* row's window
AllowedInWindowOf(row) ==
  {i \in 1..Len(rlLog) : /\ rlLog[i].identifier = row.identifier
                         /\ rlLog[i].endpoint = row.endpoint
                         /\ rlLog[i].allowed
                         /\ WindowOf(ToISOString(rlLog[i].at)) = WindowOf(row.window_start)}

\* C20: the window_start of every counter row is a time truncated to the
\* 60-second window (seconds and milliseconds 0); an identifier and endpoint
\* have at most one row per window, and its count is the number of requests
\* allowed in that window.
C20_OneCounterRowPerWindow ==
  /\ \A r \in rate_limits : r.window_start[4] = 0 /\ r.window_start[5] = 0
  /\ \A r1, r2 \in rate_limits :
       (/\ r1.identifier = r2.identifier
        /\ r1.endpoint = r2.endpoint
        /\ WindowOf(r1.window_start) = WindowOf(r2.window_start)) => r1 = r2
  /\ \A r \in rate_limits : r.count = Cardinality(AllowedInWindowOf(r))

(***************************************************************************)
(* SpecAuth: registrations and logins from two addresses, with bodies that *)
(* lack fields and an e-mail address outside Latin-1                       *)
(***************************************************************************)

MaxAuthSteps == 3

Ips == {Ip1, Ip2}

AuthRegisterBodies ==
  {RegBody(AcmeCorp, EmailA, "pw1", "Ann", "A"),
   RegBody(BetaInc, EmailZ, "pw2", "Bob", "B"),
   RegBody(BetaInc, UndefinedValue, "pw2", "Bob", "B"),
   RegBody(UndefinedValue, EmailB, "pw2", "Bob", "B")}

AuthLoginBodies ==
  {LoginBody(TenantKeyOf(AcmeCorp), EmailA, "pw1"),
   LoginBody(TenantKeyOf(AcmeCorp), EmailA, "pw2"),
   LoginBody(TenantKeyOf(AcmeCorp), EmailA, Undef),
   LoginBody(TenantKeyOf(BetaInc), EmailZ, "pw2"),
   LoginBody(UndefinedValue, EmailA, "pw1"),
   LoginBody(TenantKeyOf(BetaInc), UndefinedValue, "pw2")}

DoAuthRegister ==
  /\ Ready
  /\ \E ip \in Ips, b \in AuthRegisterBodies :
       \E first \in RlFirstChoices(rate_limits, b.email, PathRegister, now) :
         Register(ip, b, first, 0)
  /\ Step(MaxAuthSteps)

DoAuthLogin ==
  /\ Ready
  /\ \E ip \in Ips, b \in AuthLoginBodies :
       \E first \in RlFirstChoices(rate_limits, b.email, PathLogin, now) :
         Login(ip, b, first, 0)
  /\ Step(MaxAuthSteps)

NextAuth ==
  \/ DoAuthRegister
  \/ DoAuthLogin

SpecAuth == Init /\ [][NextAuth]_vars

(***************************************************************************)
(* Properties of SpecAuth                                                  *)
(***************************************************************************)

\* C8: the identifier a request is counted under is the caller's IP address.
C8_CountedUnderCallerIp ==
  (resp.rateChecked /\ rlLog # <<>>) => rlLog[Len(rlLog)].identifier = req.ip

\* the active users, of active tenants, the body of the login request names
\* with their password
LoginMatches ==
  {u \in Rows(users) :
     /\ u.email = req.body.email
     /\ u.is_active = 1
     /\ verifyPassword(req.body.password, u.password_hash)
     /\ \E t \in Rows(tenants) :
          t.id = u.tenant_id /\ t.tenant_key = req.body.tenantKey /\ t.is_active = 1}

\* C10: a login the limiter lets through, with the tenant key, e-mail and
\* password of a registered user, is answered 200 with a token that verifies
\* to the tenant id, the e-mail and the role 'admin' of that user.
C10_RegisteredUserLogsIn ==
  (req.path = PathLogin /\ Allowed /\ LoginMatches # {}) =>
    /\ resp.status = 200
    /\ LET v == verifyJWT(resp.token, JwtSecret, now)
       IN  /\ v.ok
           /\ \E u \in LoginMatches :
                /\ v.payload.tenantId = u.tenant_id
                /\ v.payload.email = u.email
                /\ v.payload.role = RoleAdmin

\* C16: a response that reports a failure carries a fixed error string only,
\* never the message of the exception the handler caught.
C16_ErrorsCarryNoDetails ==
  resp.status >= 400 => (resp.error # "" /\ ~resp.details)

\* the request lacks an input its route requires: register without
\* companyName or password, login without email, create opportunity (by a
\* verified user) without name
LacksRequiredInput(r) ==
  \/ r.path = PathRegister /\ (r.body.companyName = UndefinedValue \/ r.body.password = Undef)
  \/ r.path = PathLogin /\ r.body.email = UndefinedValue
  \/ r.method = "POST" /\ r.path = PathOpportunities /\ r.user # NoUser /\ r.body.name = Undef

\* C17: a request that lacks a required input is answered 400 and leaves the
\* database as it was.
C17_MissingInputIs400 ==
  [][LacksRequiredInput(req') => (resp'.status = 400 /\ dbVars' = dbVars)]_vars

(***************************************************************************)
(* SpecLogin: logins against a database as an operator may have left it:   *)
(* the tenant "acme-corp" missing, deactivated or active, its user missing, *)
(* deactivated or active (no route sets is_active; the columns are set in   *)
(* the database), and the login counter of the e-mail empty or at its limit *)
(***************************************************************************)

MaxLoginSteps == 3

AcmeTenant == TenantRow(1, TenantKeyOf(AcmeCorp), AcmeCorp, EmailA)
AnnUser == UserRow(1, 1, EmailA, hashPassword("pw1"), "Ann", "A", RoleAdmin)
BobUser == UserRow(1, 1, EmailB, hashPassword("pw1"), "Bob", "B", RoleAdmin)

\* the tenants and users tables the logins find
LoginDatabases ==
  {[tenants |-> <<>>, users |-> <<>>],
   [tenants |-> <<[AcmeTenant EXCEPT !.is_active = 0]>>, users |-> <<AnnUser>>],
   [tenants |-> <<AcmeTenant>>, users |-> <<BobUser>>],
   [tenants |-> <<AcmeTenant>>, users |-> <<[AnnUser EXCEPT !.is_active = 0]>>],
   [tenants |-> <<AcmeTenant>>, users |-> <<AnnUser>>]}

\* the counter rows of the login endpoint: none, or the e-mail at its limit
LoginCounters ==
  {{}, {[identifier |-> EmailA, endpoint |-> PathLogin, count |-> LoginLimit,
         window_start |-> ToISOString(0)]}}

InitLogin ==
  /\ now = 0
  /\ \E db \in LoginDatabases : tenants = db.tenants /\ users = db.users
  /\ companies = <<>> /\ contacts = <<>>
  /\ opportunities = <<>> /\ captures = <<>> /\ activity_log = <<>>
  /\ rate_limits \in LoginCounters
  /\ tokens = {}
  /\ req = NoRequest
  /\ resp = NoResponse
  /\ rlLog = <<>>
  /\ jwt = <<>>
  /\ steps = 0
  /\ idle = FALSE
  /\ inflight = <<>>
  /\ browser = <<>>

LoginAttempts ==
  {LoginBody(TenantKeyOf(AcmeCorp), EmailA, "pw1"),
   LoginBody(TenantKeyOf(AcmeCorp), EmailA, "pw2"),
   LoginBody(TenantKeyOf(AcmeCorp), EmailA, Undef),
   LoginBody(TenantKeyOf(BetaInc), EmailA, "pw1")}

\* a login at once, or a window later (the counter rows are purged by then)
LoginDelays == {0, WindowMs + 1}

DoLoginAttempt ==
  /\ Ready
  /\ \E b \in LoginAttempts, d \in LoginDelays :
       \E first \in RlFirstChoices(rate_limits, b.email, PathLogin, now + d) :
         Login(Ip1, b, first, d)
  /\ Step(MaxLoginSteps)

NextLogin == DoLoginAttempt

SpecLogin == InitLogin /\ [][NextLogin]_vars

(***************************************************************************)
(* Properties of SpecLogin                                                 *)
(***************************************************************************)

\* why the credentials of a login body are not those of an active user of an
\* active tenant, in the database as it is: the first reason that applies
WhyLoginFails(body) ==
  LET named == {t \in Rows(tenants) : t.tenant_key = body.tenantKey}
      active == {t \in named : t.is_active = 1}
      known == {u \in Rows(users) : u.email = body.email /\ \E t \in active : u.tenant_id = t.id}
      usable == {u \in known : u.is_active = 1}
  IN  IF named = {} THEN "unknown tenant key"
      ELSE IF active = {} THEN "inactive tenant"
      ELSE IF known = {} THEN "unknown email"
      ELSE IF usable = {} THEN "inactive user"
      ELSE IF \A u \in usable : u.password_hash.of # body.password THEN "wrong password"
      ELSE "none"

\* the login body carries a tenant key, an e-mail and a password
Stated(body) ==
  body.tenantKey # UndefinedValue /\ body.email # UndefinedValue /\ body.password # Undef

\* what the client receives of a response: status and body
Received(r) ==
  [status |-> r.status, error |-> r.error, details |-> r.details, data |-> r.data,
   token |-> r.token]

InvalidCredentials ==
  [status |-> 401, error |-> "Invalid credentials", details |-> FALSE, data |-> {},
   token |-> <<>>]

MaxWriteSteps == 3

AnnIdentity == [userId |-> 1, tenantId |-> 1, email |-> EmailA, role |-> RoleAdmin]
BobIdentity == [userId |-> 2, tenantId |-> 2, email |-> EmailB, role |-> RoleAdmin]
AnnToken == generateJWT(AnnIdentity, JwtSecret, 0)
BobToken == generateJWT(BobIdentity, JwtSecret, 0)

\* the state after "Acme Corp" and "Beta" registered and their users logged
\* in, all at clock reading 0
InitWrite ==
  /\ now = 0
  /\ tenants = <<TenantRow(1, TenantKeyOf(AcmeCorp), AcmeCorp, EmailA),
                 TenantRow(2, TenantKeyOf(BetaInc), BetaInc, EmailB)>>
  /\ users = <<UserRow(1, 1, EmailA, hashPassword("pw1"), "Ann", "A", RoleAdmin),
               UserRow(2, 2, EmailB, hashPassword("pw2"), "Bob", "B", RoleAdmin)>>
  /\ companies = <<>> /\ contacts = <<>>
  /\ opportunities = <<>> /\ captures = <<>>
  /\ activity_log = <<LogRow(1, 1, 1, "login", Null, 0), LogRow(2, 2, 2, "login", Null, 0)>>
  /\ rate_limits = {[identifier |-> e, endpoint |-> p, count |-> 1,
                     window_start |-> ToISOString(0)] :
                      e \in {EmailA, EmailB}, p \in {PathRegister, PathLogin}}
  /\ tokens = {AnnToken, BobToken}
  /\ req = LoginRequest(Ip1, LoginBody(TenantKeyOf(BetaInc), EmailB, "pw2"))
  /\ resp = [Response(200, "", "login", TRUE, 7) EXCEPT
               !.token = BobToken,
               !.data = {[id |-> 2, email |-> EmailB, firstName |-> "Bob", lastName |-> "B",
                          role |-> RoleAdmin, tenantKey |-> TenantKeyOf(BetaInc)]}]
  /\ rlLog = <<RlEntry(EmailA, PathRegister, RegisterLimit, 0, FALSE),
               RlEntry(EmailB, PathRegister, RegisterLimit, 0, FALSE),
               RlEntry(EmailA, PathLogin, LoginLimit, 0, FALSE),
               RlEntry(EmailB, PathLogin, LoginLimit, 0, FALSE)>>
  /\ jwt = <<>>
  /\ steps = 0
  /\ idle = FALSE
  /\ inflight = <<>>
  /\ browser = <<>>

\* bodies that name tenant 1 or tenant 2 in fields of their own
WriteOppBodies ==
  {OppBody("Deal", "new_business", 0, Undef, <<2500000>>, <<60>>),
   OppBody("Deal", "new_business", 1, Undef, <<>>, <<>>),
   OppBody(Undef, "new_business", 0, Undef, <<>>, <<>>)}
WritePatches ==
  {[name |-> Undef, stage |-> "proposal", amount |-> <<>>, probability |-> <<>>,
    tenantId |-> 2, tenant_id |-> 2]}
WriteIdPaths == {PathOpportunities \o <<"/", "1">>}
WriteContactBodies ==
  {[firstName |-> "John", lastName |-> "Anderson", companyId |-> 0, tenantId |-> 1],
   [firstName |-> "John", lastName |-> "Anderson", companyId |-> 1, tenantId |-> 1]}
WriteCompanyBodies == {[name |-> "Agency", type |-> Undef, tenantId |-> 2]}
WriteCaptureBodies == {[name |-> "Bid", customerName |-> "DoD", captureType |-> "joint",
                        currentPhase |-> Undef, tenantId |-> 2]}

DoWritePostOpportunity ==
  /\ Ready
  /\ \E a \in PlainHeaders, b \in WriteOppBodies :
       PostOpportunity(ApiRequest("POST", PathOpportunities, a, NoQuery, b), 0)
  /\ Step(MaxWriteSteps)

DoWritePutOpportunity ==
  /\ Ready
  /\ \E a \in PlainHeaders, p \in WriteIdPaths, b \in WritePatches :
       PutOpportunity(ApiRequest("PUT", p, a, NoQuery, b), 0)
  /\ Step(MaxWriteSteps)

DoWritePostContact ==
  /\ Ready
  /\ \E a \in PlainHeaders, b \in WriteContactBodies :
       PostContact(ApiRequest("POST", PathContacts, a, NoQuery, b), 0)
  /\ Step(MaxWriteSteps)

DoWritePostCompany ==
  /\ Ready
  /\ \E a \in PlainHeaders, b \in WriteCompanyBodies :
       PostCompany(ApiRequest("POST", PathCompanies, a, NoQuery, b), 0)
  /\ Step(MaxWriteSteps)

DoWritePostCapture ==
  /\ Ready
  /\ \E a \in PlainHeaders, b \in WriteCaptureBodies :
       PostCapture(ApiRequest("POST", PathCaptures, a, NoQuery, b), 0)
  /\ Step(MaxWriteSteps)

NextWrite ==
  \/ DoWritePostOpportunity
  \/ DoWritePutOpportunity
  \/ DoWritePostContact
  \/ DoWritePostCompany
  \/ DoWritePostCapture

SpecWrite == InitWrite /\ [][NextWrite]_vars

(***************************************************************************)
(* Properties of SpecWrite                                                 *)
(***************************************************************************)

CreateHandlers == {"postOpportunity", "postContact", "postCompany", "postCapture"}

\* the rows of `before` are in `after` with their tenant_id, and the rows
\* `after` has more carry the tenant id t
KeepsAndAddsFor(before, after, t) ==
  /\ Len(after) >= Len(before)
  /\ \A i \in 1..Len(before) : after[i].tenant_id = before[i].tenant_id
  /\ \A i \in (Len(before) + 1)..Len(after) : after[i].tenant_id = t

\* the tenant id of the verified token of the request handled in this step
\* (0 when it carries none)
TokenTenant ==
  IF BadCredentials(req'.auth, now') THEN 0
  ELSE verifyJWT(BearerToken(req'.auth), JwtSecret, now').payload.tenantId

\* C12: in every step, each row added to opportunities, contacts, companies
\* or captures carries the tenant id of the verified token of the request,
\* whatever the body names, and every row that was there keeps its tenant_id;
\* a request without a verified token adds no row.
C12_WritesTakeTenantFromToken ==
  [][/\ KeepsAndAddsFor(opportunities, opportunities', TokenTenant)
     /\ KeepsAndAddsFor(contacts, contacts', TokenTenant)
     /\ KeepsAndAddsFor(companies, companies', TokenTenant)
     /\ KeepsAndAddsFor(captures, captures', TokenTenant)
     /\ TokenTenant = 0 => <<opportunities, contacts, companies, captures>>'
                            = <<opportunities, contacts, companies, captures>>]_vars

\* C12 witness: a create request whose body names another tenant than its
\* token was answered 201 with a row of the token's tenant.
C12_BodyTenantIgnored ==
  /\ resp.handler \in CreateHandlers
  /\ resp.status = 201
  /\ req.body.tenantId # req.user.tenantId
  /\ \A x \in resp.data : x.tenant_id = req.user.tenantId

\* the row's company_id is not set, or names a company of the row's tenant
RefersWithinTenant(row) ==
  row.company_id # 0 =>
    \E c \in Rows(companies) : c.id = row.company_id /\ c.tenant_id = row.tenant_id

\* C13: every opportunity and every contact whose company_id is set refers to
\* a company row with the tenant_id of the referring row.
C13_NoCrossTenantReferences ==
  /\ \A o \in Rows(opportunities) : RefersWithinTenant(o)
  /\ \A c \in Rows(contacts) : RefersWithinTenant(c)

\* the handlers of the mutating actions, and the entity type of each record
MutatingHandlers == CreateHandlers \cup {"putOpportunity", "login"}
EntityOf(handler) ==
  CASE handler \in {"postOpportunity", "putOpportunity"} -> "opportunity"
    [] handler = "postContact" -> "contact"
    [] handler = "postCompany" -> "company"
    [] handler = "postCapture" -> "capture"
    [] OTHER -> Null

\* C15: every step leaves the activity_log rows that were there as they were,
\* and a mutating action answered 200 or 201 (create or update opportunity,
\* create contact, company or capture, login) appends exactly one row, with
\* the caller's tenant id and user id and, for a record, its entity type and id.
C15_EveryMutationIsLogged ==
  [][/\ Len(activity_log') >= Len(activity_log)
     /\ SubSeq(activity_log', 1, Len(activity_log)) = activity_log
     /\ (resp'.handler \in MutatingHandlers /\ resp'.status \in {200, 201}) =>
          /\ Len(activity_log') = Len(activity_log) + 1
          /\ LET row == activity_log'[Len(activity_log')]
             IN  /\ resp'.handler # "login" =>
                      /\ row.tenant_id = req'.user.tenantId
                      /\ row.user_id = req'.user.userId
                      /\ row.entity_type = EntityOf(resp'.handler)
                      /\ \E x \in resp'.data : row.entity_id = x.id
                 /\ resp'.handler = "login" =>
                      \E u \in resp'.data :
                        /\ row.user_id = u.id
                        /\ row.tenant_id = users[u.id].tenant_id]_vars

(***************************************************************************)
(* SpecDerived: one user creating opportunities with or without amount and *)
(* probability, and updating them with any of name, stage, amount,         *)
(* probability                                                             *)
(***************************************************************************)

MaxDerivedSteps == 3

DerivedHeaders == {BearerPrefix \o AnnToken}

DerivedOppBodies ==
  {OppBody("Deal", "new_business", 0, Undef, a, p) :
     a \in {<<>>, <<2500000>>}, p \in {<<>>, <<60>>}}

DerivedPatches ==
  {OppPatch(Undef, Undef, <<3000000>>, <<>>),
   OppPatch(Undef, Undef, <<>>, <<50>>),
   OppPatch(Undef, Undef, <<3000000>>, <<50>>),
   OppPatch("Deal 2", "proposal", <<>>, <<>>)}

DerivedIdPaths == {PathOpportunities \o <<"/", "1">>, PathOpportunities \o <<"/", "2">>}

DoDerivedPostOpportunity ==
  /\ Ready
  /\ \E a \in DerivedHeaders, b \in DerivedOppBodies :
       PostOpportunity(ApiRequest("POST", PathOpportunities, a, NoQuery, b), 0)
  /\ Step(MaxDerivedSteps)

DoDerivedPutOpportunity ==
  /\ Ready
  /\ \E a \in DerivedHeaders, p \in DerivedIdPaths, b \in DerivedPatches :
       PutOpportunity(ApiRequest("PUT", p, a, NoQuery, b), 0)
  /\ Step(MaxDerivedSteps)

NextDerived ==
  \/ DoDerivedPostOpportunity
  \/ DoDerivedPutOpportunity

SpecDerived == InitWrite /\ [][NextDerived]_vars

(***************************************************************************)
(* Properties of SpecDerived                                               *)
(***************************************************************************)

\* the revenue r, a fraction, is a * p / 100
IsPercentOf(r, a, p) == r.den = 100 /\ r.num = a * p

\* C14: a POST /api/opportunities answered 201 returns the row it stored, and
\* the row's expected_revenue is a * p / 100 for the amount a and probability
\* p of the body, a missing one counting as 0; amount 2,500,000 with
\* probability 60 gives 1,500,000.
C14_ExpectedRevenueOnCreate ==
  (resp.handler = "postOpportunity" /\ resp.status = 201) =>
    \A x \in resp.data :
      /\ x.id \in 1..Len(opportunities)
      /\ opportunities[x.id] = x
      /\ IsPercentOf(x.expected_revenue, OrZero(req.body.amount), OrZero(req.body.probability))
      /\ (req.body.amount = <<2500000>> /\ req.body.probability = <<60>>)
           => x.expected_revenue.num = 1500000 * x.expected_revenue.den

\* C14 witness: amount 2,500,000 with probability 60 was stored and returned
\* with expected_revenue 1,500,000.
C14_DemoOpportunityCreated ==
  /\ resp.handler = "postOpportunity"
  /\ resp.status = 201
  /\ req.body.amount = <<2500000>>
  /\ req.body.probability = <<60>>
  /\ \E x \in resp.data : x.expected_revenue = [num |-> 150000000, den |-> 100]

\* C19: every opportunity row has expected_revenue = amount * probability /
\* 100 of its stored amount (NULL counting as 0) and probability.
C19_ExpectedRevenueStaysDerived ==
  \A o \in Rows(opportunities) :
    IsPercentOf(o.expected_revenue, OrZero(o.amount), o.probability)

(***************************************************************************)
(* SpecToken: requests to protected routes presenting tokens of every      *)
(* kind: issued, past their lifetime, cut short, altered, forged, and      *)
(* signed with the server's key over a payload that does not decode        *)
(***************************************************************************)

MaxTokenSteps == 3

\* a token of the server's key over the given payload segment
SignedOver(payloadSegment) ==
  LET encodedHeader == Btoa(HeaderJson)
  IN  encodedHeader \o <<".">> \o payloadSegment \o <<".">>
        \o signHS256(encodedHeader \o <<".">> \o payloadSegment, JwtSecret)

\* payload segments: one outside the base64 alphabet, one that is base64 of a
\* text JSON.parse rejects
UndecodableSegments == {<<"_", "_">>, Btoa(<<"x">>)}

\* t cut down to its first n segments
FirstSegments(t, n) == SubSeq(t, 1, SegmentStart(t, n + 1) - 2)

PresentedTokens ==
  tokens
    \cup UNION {Tampered(t) : t \in tokens}
    \cup {FirstSegments(t, 1) : t \in tokens}
    \cup {ForgedToken}
    \cup {SignedOver(p) : p \in UndecodableSegments}

TokenHeaders == {BearerPrefix \o t : t \in PresentedTokens}

DoTokenGetOpportunities ==
  /\ Ready
  /\ \E a \in TokenHeaders, d \in GateDelays :
       GetOpportunities(ApiRequest("GET", PathOpportunities, a, NoQuery, NoBody), d)
  /\ Step(MaxTokenSteps)

DoTokenPostCompany ==
  /\ Ready
  /\ \E a \in TokenHeaders, d \in GateDelays, b \in CompanyBodies :
       PostCompany(ApiRequest("POST", PathCompanies, a, NoQuery, b), d)
  /\ Step(MaxTokenSteps)

NextToken ==
  \/ DoTokenGetOpportunities
  \/ DoTokenPostCompany

SpecToken == InitWrite /\ [][NextToken]_vars

(***************************************************************************)
(* Properties of SpecToken                                                 *)
(***************************************************************************)

\* which check of verifyJWT a token fails at clock reading t
TokenFailure(token, t) ==
  LET v == verifyJWT(token, JwtSecret, t)
  IN  IF v.ok THEN "none"
      ELSE IF Len(Split(token, ".")) < 3 THEN "too few segments"
      ELSE IF v.error = "Invalid signature" THEN "wrong signature"
      ELSE IF v.error = "Token expired" THEN "expired"
      ELSE "payload does not decode"

InvalidToken ==
  [status |-> 401, error |-> "Invalid token", details |-> FALSE, data |-> {},
   token |-> <<>>]

\* C18: a request to a protected route with a Bearer token that fails
\* verification, be it for too few segments, a payload that does not decode,
\* a wrong signature or a passed expiry, receives one and the same response:
\* 401 with the body { error: 'Invalid token' }.
C18_TokenFailuresLookAlike ==
  (/\ IsProtectedRoute(req.method, req.path)
   /\ StartsWith(req.auth, BearerPrefix)
   /\ TokenFailure(BearerToken(req.auth), now)
        \in {"too few segments", "payload does not decode", "wrong signature", "expired"})
  => Received(resp) = InvalidToken

\* C18 witness: a token of the server's key whose payload does not decode was
\* answered as a token with a wrong signature is.
C18_UndecodableTokenRefused ==
  /\ IsProtectedRoute(req.method, req.path)
  /\ StartsWith(req.auth, BearerPrefix)
  /\ TokenFailure(BearerToken(req.auth), now) = "payload does not decode"
  /\ Received(resp) = InvalidToken

(***************************************************************************)
(* SpecWindow: two addresses registering and logging in, at once, a window *)
(* later or a millisecond more than a window later, with and without a     *)
(* counter that has reached its limit                                      *)
(***************************************************************************)

MaxWindowSteps == 3

\* the counter of five registrations of one address at time 0
FullRegisterCounter ==
  [identifier |-> EmailA, endpoint |-> PathRegister, count |-> RegisterLimit,
   window_start |-> ToISOString(0)]

\* the state after AcmeCorp registered five times at time 0: the first
\* registration made the tenant, the others found it
InitWindowFull ==
  /\ now = 0
  /\ tenants = <<AcmeTenant>> /\ users = <<AnnUser>>
  /\ companies = <<>> /\ contacts = <<>>
  /\ opportunities = <<>> /\ captures = <<>> /\ activity_log = <<>>
  /\ rate_limits = {FullRegisterCounter}
  /\ tokens = {}
  /\ req = RegisterRequest(Ip1, RegBody(AcmeCorp, EmailA, "pw1", "Ann", "A"))
  /\ resp = Response(400, "Company name already registered", "register", TRUE, 4)
  /\ rlLog = [i \in 1..RegisterLimit |->
                RlEntry(EmailA, PathRegister, RegisterLimit, 0, FALSE)]
  /\ jwt = <<>>
  /\ steps = 0
  /\ idle = FALSE
  /\ inflight = <<>>
  /\ browser = <<>>

InitWindow == Init \/ InitWindowFull

WindowDelays == {0, WindowMs, WindowMs + 1}

WindowRegisterBodies ==
  {RegBody(AcmeCorp, EmailA, "pw1", "Ann", "A"),
   RegBody(BetaInc, EmailB, "pw2", "Bob", "B"),
   RegBody(BetaInc, UndefinedValue, "pw2", "Bob", "B")}

WindowLoginBodies ==
  {LoginBody(TenantKeyOf(AcmeCorp), EmailA, "pw1"),
   LoginBody(TenantKeyOf(BetaInc), EmailB, "pw2")}

DoWindowRegister ==
  /\ Ready
  /\ \E b \in WindowRegisterBodies, d \in WindowDelays :
       \E first \in RlFirstChoices(rate_limits, b.email, PathRegister, now + d) :
         Register(Ip1, b, first, d)
  /\ Step(MaxWindowSteps)

DoWindowLogin ==
  /\ Ready
  /\ \E b \in WindowLoginBodies, d \in WindowDelays :
       \E first \in RlFirstChoices(rate_limits, b.email, PathLogin, now + d) :
         Login(Ip1, b, first, d)
  /\ Step(MaxWindowSteps)

NextWindow ==
  \/ DoWindowRegister
  \/ DoWindowLogin

SpecWindow == InitWindow /\ [][NextWindow]_vars

(***************************************************************************)
(* Properties of SpecWindow                                                *)
(***************************************************************************)

\* the time (ms) an ISO timestamp stands for
MsOfIso(iso) ==
  iso[1] * 86400000 + iso[2] * 3600000 + iso[3] * 60000 + iso[4] * MsPerSecond + iso[5]

\* the row's window started more than 60 seconds before t
StaleAt(row, t) == MsOfIso(row.window_start) < t - WindowMs

\* C21: every rateLimit call at time t first deletes all counter rows, of
\* every identifier and endpoint, whose window_start is earlier than t - 60
\* seconds: no such row is left after the call, no such row is the row the
\* allow/limit decision reads, and a request is answered 429 only on a row
\* at its limit that started within the 60 seconds before t.
C21_StaleRowsPurgedBeforeCounting ==
  [][req'.path \in {PathRegister, PathLogin} =>
       /\ \A r \in rate_limits' : ~StaleAt(r, now')
       /\ \A first \in RlFirstChoices(rate_limits, req'.body.email, req'.path, now') :
            first = NoRow \/ ~StaleAt(first, now')
       /\ resp'.status = 429 =>
            \E r \in rate_limits :
              /\ r.identifier = req'.body.email /\ r.endpoint = req'.path
              /\ ~StaleAt(r, now')
              /\ r.count >= rlLog'[Len(rlLog')].limit]_vars

\* C21 witness: the address that had used up its registrations registered
\* once more a window and a millisecond later, after a login of the other
\* address had purged its counter, and was let through.
C21_StaleCounterOfAnotherPurged ==
  /\ Len(rlLog) = RegisterLimit + 2
  /\ rlLog[RegisterLimit].identifier = EmailA /\ rlLog[RegisterLimit].at = 0
  /\ rlLog[RegisterLimit + 1].identifier = EmailB
  /\ rlLog[RegisterLimit + 1].endpoint = PathLogin
  /\ rlLog[RegisterLimit + 1].at = WindowMs + 1
  /\ rlLog[RegisterLimit + 2].identifier = EmailA
  /\ rlLog[RegisterLimit + 2].endpoint = PathRegister
  /\ rlLog[RegisterLimit + 2].allowed
  /\ \A r \in rate_limits : MsOfIso(r.window_start) = WindowMs + 1

\* the sum of the counts of a set of counter rows
RECURSIVE CountTotal(_)
CountTotal(rows) ==
  IF rows = {} THEN 0
  ELSE LET r == CHOOSE x \in rows : TRUE IN r.count + CountTotal(rows \ {r})

\* the rows of an identifier and endpoint, and the other rows
CountersOf(rows, identifier, endpoint) ==
  {r \in rows : r.identifier = identifier /\ r.endpoint = endpoint}

CountersOfOthers(rows, identifier, endpoint) == rows \ CountersOf(rows, identifier, endpoint)

\* the rows the purge at time t leaves
Unpurged(rows, t) == {r \in rows : ~StaleAt(r, t)}

\* C23: a request that rateLimit rejects with 429 changes no count and
\* inserts no row; a request that it allows increases the total count stored
\* for its identifier and endpoint by exactly 1 and changes no counter of any
\* other identifier or endpoint; the only other change is the purge of stale
\* rows.
C23_CheckCountsOnlyItsOwnRequest ==
  [][Len(rlLog') = Len(rlLog) + 1 =>
       LET e == rlLog'[Len(rlLog')]
           kept == Unpurged(rate_limits, now')
       IN  /\ e.identifier = req'.body.email /\ e.endpoint = req'.path /\ e.at = now'
           /\ ~e.allowed => (resp'.status = 429 /\ rate_limits' = kept)
           /\ e.allowed =>
                /\ resp'.status # 429
                /\ CountTotal(CountersOf(rate_limits', e.identifier, e.endpoint))
                     = CountTotal(CountersOf(kept, e.identifier, e.endpoint)) + 1
                /\ CountersOfOthers(rate_limits', e.identifier, e.endpoint)
                     = CountersOfOthers(kept, e.identifier, e.endpoint)]_vars

\* C23 witness: an allowed login was counted on the row of its address and
\* endpoint, next to the register counter of the same address at its limit
\* and a counter of the other address.
C23_CountedNextToOtherCounters ==
  /\ Len(rlLog) > 0 /\ rlLog[Len(rlLog)].allowed
  /\ rlLog[Len(rlLog)].identifier = EmailA /\ rlLog[Len(rlLog)].endpoint = PathLogin
  /\ \E r \in rate_limits :
       r.identifier = EmailA /\ r.endpoint = PathLogin /\ r.count = 2
  /\ FullRegisterCounter \in rate_limits
  /\ \E r \in rate_limits : r.identifier = EmailB

(***************************************************************************)
(* SpecRace: registrations handled concurrently.  A handler runs from one  *)
(* await to the next without interruption; each database statement is one  *)
(* step, and the steps of the requests in flight interleave.               *)
(***************************************************************************)

MaxRaceCalls == 2

\* the state after AcmeCorp registered four times at time 0
InitRaceFour ==
  /\ now = 0
  /\ tenants = <<AcmeTenant>> /\ users = <<AnnUser>>
  /\ companies = <<>> /\ contacts = <<>>
  /\ opportunities = <<>> /\ captures = <<>> /\ activity_log = <<>>
  /\ rate_limits = {[FullRegisterCounter EXCEPT !.count = RegisterLimit - 1]}
  /\ tokens = {}
  /\ req = RegisterRequest(Ip1, RegBody(AcmeCorp, EmailA, "pw1", "Ann", "A"))
  /\ resp = Response(400, "Company name already registered", "register", TRUE, 4)
  /\ rlLog = [i \in 1..(RegisterLimit - 1) |->
                RlEntry(EmailA, PathRegister, RegisterLimit, 0, FALSE)]
  /\ jwt = <<>>
  /\ steps = 0
  /\ idle = FALSE
  /\ inflight = <<>>
  /\ browser = <<>>

InitRace == Init \/ InitRaceFour

RaceBodies ==
  {RegBody(AcmeCorp, EmailA, "pw1", "Ann", "A"),
   RegBody(AcmeCorpAgain, EmailA, "pw1", "Ann", "A")}

RaceDelays == {0, 1}

\* the requests being handled
InFlight == {i \in 1..Len(inflight) : inflight[i].pc # "done"}

\* the call answers and ends
Answered(call, response) == [call EXCEPT !.pc = "done", !.status = response.status]

\* a request arrives: the body is read, rateLimit reads the clock
RaceArrive ==
  /\ Len(inflight) < MaxRaceCalls
  /\ \E b \in RaceBodies, d \in RaceDelays :
       /\ now' = now + d
       /\ req' = RegisterRequest(Ip1, b)
       /\ inflight' = Append([i \in 1..Len(inflight) |->
                                IF i \in InFlight
                                THEN [inflight[i] EXCEPT !.overlapped = TRUE]
                                ELSE inflight[i]],
                             [body |-> b, at |-> now + d, pc |-> "purge", first |-> NoRow,
                              tenantId |-> 0, status |-> 0, overlapped |-> InFlight # {}])
  /\ UNCHANGED <<dbVars, tokens, resp, rlLog, jwt, steps, idle, browser>>

\* DELETE FROM rate_limits WHERE window_start < ?
RacePurge(i) ==
  /\ i \in InFlight /\ inflight[i].pc = "purge"
  /\ rate_limits' = RlPurge(rate_limits, inflight[i].at)
  /\ inflight' = [inflight EXCEPT ![i].pc = "select"]
  /\ UNCHANGED <<now, tenants, users, companies, contacts, opportunities, captures,
                 activity_log, tokens, req, resp, rlLog, jwt, steps, idle, browser>>

\* SELECT count ... .first(); if (result && result.count >= limit) return 429
RaceSelect(i) ==
  /\ i \in InFlight /\ inflight[i].pc = "select"
  /\ \E first \in RlFirstChoices(rate_limits, inflight[i].body.email, PathRegister,
                                 inflight[i].at) :
       LET limited == RlLimited(first, RegisterLimit)
           response == Response(429, "Rate limit exceeded", "register", TRUE, 2)
       IN  /\ rlLog' = Append(rlLog, RlEntry(inflight[i].body.email, PathRegister,
                                             RegisterLimit, inflight[i].at, limited))
           /\ IF limited
              THEN /\ inflight' = [inflight EXCEPT ![i] = Answered(@, response)]
                   /\ resp' = response
              ELSE /\ inflight' = [inflight EXCEPT ![i].pc = "upsert", ![i].first = first]
                   /\ UNCHANGED resp
  /\ UNCHANGED <<now, dbVars, tokens, req, jwt, steps, idle, browser>>

\* INSERT INTO rate_limits ... ON CONFLICT ... DO UPDATE SET count = count + 1
RaceUpsert(i) ==
  /\ i \in InFlight /\ inflight[i].pc = "upsert"
  /\ rate_limits' = RlUpsert(rate_limits, inflight[i].body.email, PathRegister, inflight[i].at)
  /\ inflight' = [inflight EXCEPT ![i].pc = "lookup"]
  /\ UNCHANGED <<now, tenants, users, companies, contacts, opportunities, captures,
                 activity_log, tokens, req, resp, rlLog, jwt, steps, idle, browser>>

\* SELECT id FROM tenants WHERE tenant_key = ?; if (existingTenant) return 400
RaceLookup(i) ==
  /\ i \in InFlight /\ inflight[i].pc = "lookup"
  /\ LET tenantKey == TenantKeyOf(inflight[i].body.companyName)
         response == Response(400, "Company name already registered", "register", TRUE, 4)
     IN  IF \E t \in Rows(tenants) : t.tenant_key = tenantKey
         THEN /\ inflight' = [inflight EXCEPT ![i] = Answered(@, response)]
              /\ resp' = response
         ELSE /\ inflight' = [inflight EXCEPT ![i].pc = "insertTenant"]
              /\ UNCHANGED resp
  /\ UNCHANGED <<now, dbVars, tokens, req, rlLog, jwt, steps, idle, browser>>

\* the tenant insert on a table without the UNIQUE constraint
RaceInsertTenantUnconstrained(i) ==
  /\ i \in InFlight /\ inflight[i].pc = "insertTenant"
  /\ tenants' = Append(tenants, TenantRow(NextId(tenants),
                                          TenantKeyOf(inflight[i].body.companyName),
                                          inflight[i].body.companyName,
                                          inflight[i].body.email))
  /\ inflight' = [inflight EXCEPT ![i].pc = "insertUser", ![i].tenantId = NextId(tenants)]
  /\ UNCHANGED <<now, users, companies, contacts, opportunities, captures, activity_log,
                 rate_limits, tokens, req, resp, rlLog, jwt, steps, idle, browser>>

\* INSERT INTO tenants ...: tenant_key TEXT UNIQUE NOT NULL
RaceInsertTenant(i) ==
  /\ i \in InFlight /\ inflight[i].pc = "insertTenant"
  /\ LET body == inflight[i].body
         tenantKey == TenantKeyOf(body.companyName)
         response == Thrown("Registration failed", "register", TRUE, 5)
     IN  IF \E t \in Rows(tenants) : t.tenant_key = tenantKey
         THEN \* the UNIQUE constraint fails the statement
              /\ inflight' = [inflight EXCEPT ![i] = Answered(@, response)]
              /\ resp' = response
              /\ UNCHANGED tenants
         ELSE /\ tenants' = Append(tenants, TenantRow(NextId(tenants), tenantKey,
                                                      body.companyName, body.email))
              /\ inflight' = [inflight EXCEPT ![i].pc = "insertUser",
                                              ![i].tenantId = NextId(tenants)]
              /\ UNCHANGED resp
  /\ UNCHANGED <<now, users, companies, contacts, opportunities, captures, activity_log,
                 rate_limits, tokens, req, rlLog, jwt, steps, idle, browser>>

\* hashPassword(password); INSERT INTO users ...: UNIQUE(tenant_id, email)
RaceInsertUser(i) ==
  /\ i \in InFlight /\ inflight[i].pc = "insertUser"
  /\ LET body == inflight[i].body
         tenantId == inflight[i].tenantId
         tenantKey == TenantKeyOf(body.companyName)
         failed == Thrown("Registration failed", "register", TRUE, 5)
         created == [Response(201, "", "register", TRUE, 6) EXCEPT
                       !.tenantKey = tenantKey, !.tenantId = tenantId]
     IN  IF \/ body.password = Undef \/ body.firstName = Undef \/ body.lastName = Undef
            \/ \E u \in Rows(users) : u.tenant_id = tenantId /\ u.email = body.email
         THEN /\ inflight' = [inflight EXCEPT ![i] = Answered(@, failed)]
              /\ resp' = failed
              /\ UNCHANGED users
         ELSE /\ users' = Append(users, UserRow(NextId(users), tenantId, body.email,
                                                hashPassword(body.password),
                                                body.firstName, body.lastName, RoleAdmin))
              /\ inflight' = [inflight EXCEPT ![i] = Answered(@, created)]
              /\ resp' = created
  /\ UNCHANGED <<now, tenants, companies, contacts, opportunities, captures, activity_log,
                 rate_limits, tokens, req, rlLog, jwt, steps, idle, browser>>

NextRace ==
  \/ RaceArrive
  \/ \E i \in 1..MaxRaceCalls : RacePurge(i)
  \/ \E i \in 1..MaxRaceCalls : RaceSelect(i)
  \/ \E i \in 1..MaxRaceCalls : RaceUpsert(i)
  \/ \E i \in 1..MaxRaceCalls : RaceLookup(i)
  \/ \E i \in 1..MaxRaceCalls : RaceInsertTenant(i)
  \/ \E i \in 1..MaxRaceCalls : RaceInsertUser(i)

SpecRace == InitRace /\ [][NextRace]_vars

(***************************************************************************)
(* Properties of SpecRace                                                  *)
(***************************************************************************)

\* no request arrived while another was being handled
Sequential == \A i \in 1..Len(inflight) : ~inflight[i].overlapped

\* the registrations of the address that rateLimit allowed in the 60 seconds
\* up to now
AllowedRegistrations ==
  {i \in 1..Len(rlLog) : /\ rlLog[i].allowed
                         /\ rlLog[i].identifier = EmailA
                         /\ rlLog[i].endpoint = PathRegister
                         /\ now - rlLog[i].at < WindowMs}

\* two requests in flight at once read the same count below the limit, and
\* both are allowed: more requests than the limit are allowed at one
\* clock reading
RaceBeyondLimit ==
  /\ ~Sequential
  /\ \A i \in 1..Len(rlLog) : rlLog[i].at = 0
  /\ Cardinality(AllowedRegistrations) > RegisterLimit

\* C22: the read of the counter and the upsert are separate steps, so
\* concurrent requests of one identifier and endpoint can each read a count
\* below the limit and each be allowed (RaceBeyondLimit); when the checks run
\* one after another without interleaving, the number of requests allowed in
\* one window does not exceed the limit.
C22_SequentialChecksKeepTheLimit ==
  Sequential => Cardinality(AllowedRegistrations) <= RegisterLimit

\* C27: under every interleaving of the steps of concurrent register
\* requests whose company names derive the same tenant key, at most one
\* tenant row with that key ever exists, at most one of the requests is
\* answered 201, and no two user rows share the same (tenant_id, email).
C27_UniqueUnderConcurrentRegistration ==
  /\ \A a, b \in 1..Len(tenants) :
       tenants[a].tenant_key = tenants[b].tenant_key => a = b
  /\ \A i, j \in 1..Len(inflight) :
       (/\ inflight[i].status = 201 /\ inflight[j].status = 201
        /\ TenantKeyOf(inflight[i].body.companyName) = TenantKeyOf(inflight[j].body.companyName))
       => i = j
  /\ \A a, b \in 1..Len(users) :
       (users[a].tenant_id = users[b].tenant_id /\ users[a].email = users[b].email) => a = b

\* C27 witness: two requests with different company names of one tenant key
\* were in flight together and both passed the existence check; one was
\* answered 201 and the other, its tenant insert refused, 500.
C27_BothPassedTheCheck ==
  /\ Len(inflight) = 2
  /\ inflight[1].overlapped /\ inflight[2].overlapped
  /\ inflight[1].body.companyName # inflight[2].body.companyName
  /\ {inflight[1].status, inflight[2].status} = {201, 500}
  /\ Len(tenants) = 1 /\ Len(users) = 1


(***************************************************************************)
(* SpecShared: two registered tenants; logins and registrations aimed at   *)
(* AcmeCorp, with either address, and then one login of BetaInc's user     *)
(***************************************************************************)

MaxSharedSteps == 10

BetaLogin == LoginBody(TenantKeyOf(BetaInc), EmailB, "pw2")

\* the requests aimed at the other tenant
SharedOtherLogins ==
  {LoginBody(TenantKeyOf(AcmeCorp), EmailA, "pw1"),
   LoginBody(TenantKeyOf(AcmeCorp), EmailB, "pw2")}

SharedOtherRegistrations == {RegBody(AcmeCorp, EmailB, "pw2", "Bob", "B")}

\* BetaInc's user has sent the login
BetaLoginSent == steps > 0 /\ req = LoginRequest(Ip2, BetaLogin)

DoSharedOtherLogin ==
  /\ Ready /\ ~BetaLoginSent
  /\ \E b \in SharedOtherLogins :
       \E first \in RlFirstChoices(rate_limits, b.email, PathLogin, now) :
         Login(Ip1, b, first, 0)
  /\ Step(MaxSharedSteps)

DoSharedOtherRegister ==
  /\ Ready /\ ~BetaLoginSent
  /\ \E b \in SharedOtherRegistrations :
       \E first \in RlFirstChoices(rate_limits, b.email, PathRegister, now) :
         Register(Ip1, b, first, 0)
  /\ Step(MaxSharedSteps)

DoSharedBetaLogin ==
  /\ Ready /\ ~BetaLoginSent
  /\ \E first \in RlFirstChoices(rate_limits, BetaLogin.email, PathLogin, now) :
       Login(Ip2, BetaLogin, first, 0)
  /\ Step(MaxSharedSteps)

NextShared ==
  \/ DoSharedOtherLogin
  \/ DoSharedOtherRegister
  \/ DoSharedBetaLogin

SpecShared == InitWrite /\ [][NextShared]_vars

\* C24: whether a login aimed at tenant BetaInc is allowed or answered 429
\* depends only on earlier requests aimed at BetaInc: after any login and
\* register requests sent for the other tenant, with any e-mail values, the
\* login is let through as it is when none of them was sent.
C24_OtherTenantsRequestsDoNotLimit ==
  BetaLoginSent => resp.status # 429

(***************************************************************************)
(* SpecCrash: POST /api/opportunities handled statement by statement, by   *)
(* requests in flight at once; an execution may stop at an await (the      *)
(* worker is terminated) and the log insert may fail in the database       *)
(***************************************************************************)

MaxCrashCalls == 2

CrashHeaders == {BearerPrefix \o AnnToken, BearerPrefix \o BobToken}

CrashBodies ==
  {OppBody("Deal", "new_business", 0, Undef, <<2500000>>, <<60>>),
   OppBody(Undef, "new_business", 0, Undef, <<>>, <<>>)}

\* a request arrives: the middleware verifies the token, the body is read
CreateArrive ==
  /\ Len(inflight) < MaxCrashCalls
  /\ \E a \in CrashHeaders, b \in CrashBodies :
       LET r == ApiRequest("POST", PathOpportunities, a, NoQuery, b)
           g == Gate(r, now)
       IN  /\ req' = Seen(r, g)
           /\ IF g.pass /\ g.verified
              THEN /\ inflight' = Append(inflight, [body |-> b, user |-> g.user, pc |-> "insert",
                                                    rowId |-> 0, status |-> 0])
                   /\ UNCHANGED resp
              ELSE /\ inflight' = Append(inflight, [body |-> b, user |-> g.user, pc |-> "done",
                                                    rowId |-> 0, status |-> Rejected(g).status])
                   /\ resp' = Rejected(g)
  /\ UNCHANGED <<now, dbVars, tokens, rlLog, jwt, steps, idle, browser>>

\* INSERT INTO opportunities ...; catch: 500
CreateInsert(i) ==
  /\ i \in InFlight /\ inflight[i].pc = "insert"
  /\ LET row == NewOpportunity(inflight[i].user, inflight[i].body)
         failed == Response(500, "Failed to create opportunity", "postOpportunity", FALSE, 1)
     IN  IF OpportunityBindThrows(inflight[i].body) \/ OpportunityInsertFails(row)
         THEN /\ inflight' = [inflight EXCEPT ![i] = Answered(@, failed)]
              /\ resp' = failed
              /\ UNCHANGED opportunities
         ELSE /\ opportunities' = Append(opportunities, row)
              /\ inflight' = [inflight EXCEPT ![i].pc = "log", ![i].rowId = row.id]
              /\ UNCHANGED resp
  /\ UNCHANGED <<now, tenants, users, companies, contacts, captures, activity_log,
                 rate_limits, tokens, req, rlLog, jwt, steps, idle, browser>>

\* the log statement is left out and the handler goes on
CreateLogLeftOut(i) ==
  /\ i \in InFlight /\ inflight[i].pc = "log"
  /\ inflight' = [inflight EXCEPT ![i].pc = "read"]
  /\ UNCHANGED <<now, dbVars, tokens, req, resp, rlLog, jwt, steps, idle, browser>>

\* INSERT INTO activity_log ... 'create', 'opportunity', last_row_id; the
\* statement runs or the database fails it, and the catch block answers 500
CreateLog(i) ==
  /\ i \in InFlight /\ inflight[i].pc = "log"
  /\ \E runs \in BOOLEAN :
       LET failed == Response(500, "Failed to create opportunity", "postOpportunity", FALSE, 2)
       IN  IF runs
           THEN /\ activity_log' = Append(activity_log,
                     LogRow(NextId(activity_log), inflight[i].user.tenantId,
                            inflight[i].user.userId, "create", "opportunity",
                            inflight[i].rowId))
                /\ inflight' = [inflight EXCEPT ![i].pc = "read"]
                /\ UNCHANGED resp
           ELSE /\ inflight' = [inflight EXCEPT ![i] = Answered(@, failed)]
                /\ resp' = failed
                /\ UNCHANGED activity_log
  /\ UNCHANGED <<now, tenants, users, companies, contacts, opportunities, captures,
                 rate_limits, tokens, req, rlLog, jwt, steps, idle, browser>>

\* SELECT * FROM opportunities WHERE id = ?; return c.json(opportunity, 201)
CreateRead(i) ==
  /\ i \in InFlight /\ inflight[i].pc = "read"
  /\ LET created == [Response(201, "", "postOpportunity", FALSE, 3) EXCEPT
                       !.data = {opportunities[inflight[i].rowId]}]
     IN  /\ inflight' = [inflight EXCEPT ![i] = Answered(@, created)]
         /\ resp' = created
  /\ UNCHANGED <<now, dbVars, tokens, req, rlLog, jwt, steps, idle, browser>>

\* the execution stops at the await it has reached; nothing is answered
CreateStop(i) ==
  /\ i \in InFlight
  /\ inflight' = [inflight EXCEPT ![i].pc = "done"]
  /\ UNCHANGED <<now, dbVars, tokens, req, resp, rlLog, jwt, steps, idle, browser>>

NextCrash ==
  \/ CreateArrive
  \/ \E i \in 1..MaxCrashCalls : CreateInsert(i)
  \/ \E i \in 1..MaxCrashCalls : CreateLog(i)
  \/ \E i \in 1..MaxCrashCalls : CreateRead(i)
  \/ \E i \in 1..MaxCrashCalls : CreateStop(i)

SpecCrash == InitWrite /\ [][NextCrash]_vars

(***************************************************************************)
(* Properties of SpecCrash                                                 *)
(***************************************************************************)

\* the activity-log rows of the creation of an opportunity
CreationLogged(id) ==
  {l \in Rows(activity_log) : /\ l.activity_type = "create"
                              /\ l.entity_type = "opportunity"
                              /\ l.entity_id = id}

\* the requests whose insert stored the opportunity
CreatedBy(id) == {i \in 1..Len(inflight) : inflight[i].rowId = id}

\* C25: the opportunity insert and the activity-log insert are two
\* statements; an opportunity row can be left with no activity-log row for
\* it, and then its request stopped or failed between the statements and
\* its client has received no success response; a request answered 201 has
\* its row and exactly one log row.
C25_UnloggedOnlyWithoutSuccess ==
  /\ \A o \in Rows(opportunities) :
       CreationLogged(o.id) = {} =>
         \E i \in CreatedBy(o.id) : inflight[i].pc \in {"log", "done"} /\ inflight[i].status # 201
  /\ \A i \in 1..Len(inflight) :
       inflight[i].status = 201 =>
         /\ inflight[i].rowId \in 1..Len(opportunities)
         /\ Cardinality(CreationLogged(inflight[i].rowId)) = 1

\* C25 witness: one execution stopped after its opportunity insert and one
\* was answered 500 when its log insert failed; both opportunity rows are
\* stored and neither has a log row.
C25_StoredUnlogged ==
  /\ Len(inflight) = 2
  /\ inflight[1].pc = "done" /\ inflight[1].status = 0 /\ inflight[1].rowId # 0
  /\ inflight[2].pc = "done" /\ inflight[2].status = 500 /\ inflight[2].rowId # 0
  /\ \A i \in 1..2 : /\ inflight[i].rowId \in 1..Len(opportunities)
                     /\ CreationLogged(inflight[i].rowId) = {}

(***************************************************************************)
(* Further properties of SpecRate                                          *)
(***************************************************************************)

\* the admin users of a tenant
AdminsOf(tenantId) ==
  {u \in Rows(users) : u.tenant_id = tenantId /\ u.role = RoleAdmin}

\* C26: registration is all-or-nothing: after a register request has ended
\* with any outcome, every tenant row has at least one user row with role
\* 'admin' in that tenant, and a registration answered 500 has left no
\* tenant row with the key of its company name.
C26_RegistrationAllOrNothing ==
  /\ \A t \in Rows(tenants) : AdminsOf(t.id) # {}
  /\ (resp.handler = "register" /\ resp.status = 500
        /\ req.body.companyName # UndefinedValue) =>
       \A t \in Rows(tenants) : t.tenant_key # TenantKeyOf(req.body.companyName)

(***************************************************************************)
(* SpecDeactivate: two tenants holding tokens; an operator deactivates a   *)
(* tenant or a user in the database; logins and protected requests follow  *)
(***************************************************************************)

MaxDeactivateSteps == 3

\* UPDATE tenants SET is_active = 0 WHERE id = ? (done in the database; the
\* API has no route for it)
DeactivateTenant(id) ==
  /\ id \in 1..Len(tenants) /\ tenants[id].is_active = 1
  /\ tenants' = [tenants EXCEPT ![id].is_active = 0]
  /\ UNCHANGED <<now, users, companies, contacts, opportunities, captures, activity_log,
                 rate_limits, tokens, req, resp, rlLog, jwt>>

\* UPDATE users SET is_active = 0 WHERE id = ?
DeactivateUser(id) ==
  /\ id \in 1..Len(users) /\ users[id].is_active = 1
  /\ users' = [users EXCEPT ![id].is_active = 0]
  /\ UNCHANGED <<now, tenants, companies, contacts, opportunities, captures, activity_log,
                 rate_limits, tokens, req, resp, rlLog, jwt>>

DeactivateDelays == {0, 1000}

DoDeactivateTenant ==
  /\ Ready
  /\ \E id \in 1..2 : DeactivateTenant(id)
  /\ Step(MaxDeactivateSteps)

DoDeactivateUser ==
  /\ Ready
  /\ \E id \in 1..2 : DeactivateUser(id)
  /\ Step(MaxDeactivateSteps)

DoDeactivateLogin ==
  /\ Ready
  /\ \E b \in LoginBodies, d \in DeactivateDelays :
       \E first \in RlFirstChoices(rate_limits, b.email, PathLogin, now + d) :
         Login(Ip1, b, first, d)
  /\ Step(MaxDeactivateSteps)

DoDeactivateGetOpportunities ==
  /\ Ready
  /\ \E a \in PlainHeaders, d \in DeactivateDelays :
       GetOpportunities(ApiRequest("GET", PathOpportunities, a, NoQuery, NoBody), d)
  /\ Step(MaxDeactivateSteps)

DoDeactivatePostCompany ==
  /\ Ready
  /\ \E a \in PlainHeaders, d \in DeactivateDelays, b \in CompanyBodies :
       PostCompany(ApiRequest("POST", PathCompanies, a, NoQuery, b), d)
  /\ Step(MaxDeactivateSteps)

NextDeactivate ==
  \/ DoDeactivateTenant
  \/ DoDeactivateUser
  \/ DoDeactivateLogin
  \/ DoDeactivateGetOpportunities
  \/ DoDeactivatePostCompany

SpecDeactivate == InitWrite /\ [][NextDeactivate]_vars

\* C28: a request to a protected route is served by a domain handler only
\* if, at the time of the request, the tenant named in its token has
\* is_active = 1 and the user named in its token has is_active = 1; a token
\* issued before the deactivation no longer gives access.
C28_DeactivatedGetNoAccess ==
  (resp.handler \in ProtectedHandlers /\ req.user # NoUser) =>
    /\ req.user.tenantId \in 1..Len(tenants) /\ tenants[req.user.tenantId].is_active = 1
    /\ req.user.userId \in 1..Len(users) /\ users[req.user.userId].is_active = 1

(***************************************************************************)
(* SpecSegments: a token is issued, possibly altered in a character or     *)
(* extended by further segments, and verified with the secret that signed  *)
(* it                                                                      *)
(***************************************************************************)

MaxSegmentsAppended == 2

\* the segments appended: empty or of one character
AppendedSegments == {<<".">>, <<".", "A">>}

\* a holder of the token appends a '.'-separated segment to it
JwtExtend ==
  /\ jwt # <<>>
  /\ ~jwt.thrown /\ jwt.result = NoResult
  /\ Len(Split(jwt.token, ".")) < 3 + MaxSegmentsAppended
  /\ \E x \in AppendedSegments :
       jwt' = [jwt EXCEPT !.token = jwt.token \o x, !.altered = TRUE]
  /\ UNCHANGED <<now, dbVars, tokens, req, resp, rlLog, steps, idle, inflight, browser>>

NextSegments ==
  \/ JwtIssue
  \/ JwtAlter
  \/ JwtExtend
  \/ JwtVerify

SpecSegments == Init /\ [][NextSegments]_vars

\* C29: verifyJWT(token, secret) returns a payload only if token is,
\* character for character, the three-segment string generateJWT produced
\* with the same secret; any other string, a validly issued token with
\* additional '.'-separated segments appended included, is rejected.
C29_VerifiesExactlyIssuedTokens ==
  (jwt # <<>> /\ jwt.result.ok) =>
    /\ Len(Split(jwt.token, ".")) = 3
    /\ jwt.token = generateJWT(jwt.payload, jwt.secret, jwt.issuedAt)

(***************************************************************************)
(* The frontend (App.tsx): localStorage, the user held by AuthProvider,    *)
(* the route shown, and the API calls awaiting their responses             *)
(***************************************************************************)

\* localStorage.getItem of a key that is not set
Absent == <<>>

\* JSON.stringify(user) and JSON.parse(saved)
StringifyUser(user) == <<"json", user>>
ParseUser(saved) == IF saved = Absent THEN {} ELSE {saved[2]}

ProtectedPages ==
  {"/dashboard", "/opportunities", "/samgov", "/proposals", "/boilerplates",
   "/captures", "/contacts", "/companies"}

\* <Routes>: the location shown for a path while `user` (a set, empty for
\* null) is held
Resolve(path, user) ==
  IF path = "/" \/ path = "/login" \/ path = "/dashboard"
  THEN (IF user = {} THEN "/login" ELSE "/dashboard")
  ELSE IF path \in ProtectedPages
  THEN (IF user = {} THEN "/login" ELSE path)
  ELSE path

\* the page is loaded: AuthProvider takes the user from localStorage, no
\* call of the page before is awaited any more
Loaded(b, path) ==
  [b EXCEPT !.user = ParseUser(b.stored),
            !.location = Resolve(path, ParseUser(b.stored)),
            !.pending = <<>>]

\* a response interceptor that removes the token only
OnUnauthorizedTokenOnly(b) == Loaded([b EXCEPT !.token = Absent], "/login")

\* api.interceptors.response on status 401: both entries are removed and
\* window.location.href = '/login' loads the page anew
OnUnauthorized(b) ==
  Loaded([b EXCEPT !.token = Absent, !.stored = Absent], "/login")

\* api.interceptors.response on an error response
OnError(b, response) == IF response.status = 401 THEN OnUnauthorized(b) ELSE b

\* api.interceptors.request: the Authorization header of a call
RequestHeader(b) == IF b.token = Absent THEN NoHeader ELSE BearerPrefix \o b.token

\* the i-th awaited call gets its response
Delivered(b, i) ==
  [b EXCEPT !.pending = SubSeq(@, 1, i - 1) \o SubSeq(@, i + 1, Len(@)),
            !.received = @ + 1]

\* AuthProvider.login after the response, LoginPage's navigate('/dashboard')
AfterLogin(b, response) ==
  IF response.status = 200
  THEN LET user == CHOOSE x \in response.data : TRUE
       IN  [b EXCEPT !.token = response.token,
                     !.stored = StringifyUser(user),
                     !.user = {user},
                     !.location = Resolve("/dashboard", {user})]
  ELSE OnError(b, response)

\* AuthProvider.logout, and the route rendered again
AfterLogout(b) ==
  [b EXCEPT !.token = Absent, !.stored = Absent, !.user = {},
            !.location = Resolve(b.location, {})]

(***************************************************************************)
(* SpecFront: one browser on the API with two registered tenants           *)
(***************************************************************************)

MaxFrontSteps == 9

FrontPaths == {"/", "/login", "/opportunities"}

FrontLoginBodies ==
  {LoginBody(TenantKeyOf(AcmeCorp), EmailA, "pw1"),
   LoginBody(TenantKeyOf(AcmeCorp), EmailA, "pw2")}

\* the time a response takes: none, or longer than a token lives
FrontDelays == {0, (TokenLifetimeSeconds + 1) * MsPerSecond}

FrontStep ==
  /\ steps' = steps + 1
  /\ steps' <= MaxFrontSteps
  /\ idle' = FALSE
  /\ UNCHANGED inflight

\* the address is entered or the page is reloaded
FrontOpen ==
  /\ \E path \in FrontPaths :
       browser' = IF browser = <<>>
                  THEN Loaded([token |-> Absent, stored |-> Absent, user |-> {},
                               location |-> path, pending |-> <<>>, received |-> 0], path)
                  ELSE Loaded(browser, path)
  /\ UNCHANGED <<now, dbVars, tokens, req, resp, rlLog, jwt>>
  /\ FrontStep

\* navigate(item.path) in the sidebar of DashboardLayout
FrontNavigate ==
  /\ browser # <<>> /\ browser.location \in ProtectedPages
  /\ \E path \in FrontPaths \ {browser.location} :
       browser' = [browser EXCEPT !.location = Resolve(path, browser.user)]
  /\ UNCHANGED <<now, dbVars, tokens, req, resp, rlLog, jwt>>
  /\ FrontStep

\* LoginPage handleSubmit: api.post('/api/auth/login', ...) is sent
FrontSubmitLogin ==
  /\ browser # <<>> /\ browser.location = "/login"
  /\ \E b \in FrontLoginBodies :
       browser' = [browser EXCEPT !.pending =
                     Append(@, [kind |-> "login", body |-> b, auth |-> RequestHeader(browser)])]
  /\ UNCHANGED <<now, dbVars, tokens, req, resp, rlLog, jwt>>
  /\ FrontStep

\* OpportunitiesPage loadOpportunities: api.get('/api/opportunities') is sent
FrontLoadOpportunities ==
  /\ browser # <<>> /\ browser.location = "/opportunities"
  /\ browser' = [browser EXCEPT !.pending =
                   Append(@, [kind |-> "get", body |-> NoBody, auth |-> RequestHeader(browser)])]
  /\ UNCHANGED <<now, dbVars, tokens, req, resp, rlLog, jwt>>
  /\ FrontStep

\* the API handles an awaited login and the response reaches the page
FrontLoginResponse ==
  /\ browser # <<>>
  /\ \E i \in 1..Len(browser.pending), d \in FrontDelays :
       /\ browser.pending[i].kind = "login"
       /\ \E first \in RlFirstChoices(rate_limits, browser.pending[i].body.email,
                                      PathLogin, now + d) :
            Login(Ip1, browser.pending[i].body, first, d)
       /\ browser' = AfterLogin(Delivered(browser, i), resp')
  /\ FrontStep

\* the API handles an awaited GET and the response reaches the page
FrontGetResponse ==
  /\ browser # <<>>
  /\ \E i \in 1..Len(browser.pending), d \in FrontDelays :
       /\ browser.pending[i].kind = "get"
       /\ GetOpportunities(ApiRequest("GET", PathOpportunities, browser.pending[i].auth,
                                      NoQuery, NoBody), d)
       /\ browser' = IF resp'.status = 200 THEN Delivered(browser, i)
                     ELSE OnError(Delivered(browser, i), resp')
  /\ FrontStep

\* the Logout button of DashboardLayout
FrontLogout ==
  /\ browser # <<>> /\ browser.location \in ProtectedPages
  /\ browser' = AfterLogout(browser)
  /\ UNCHANGED <<now, dbVars, tokens, req, resp, rlLog, jwt>>
  /\ FrontStep

NextFront ==
  \/ FrontOpen
  \/ FrontNavigate
  \/ FrontSubmitLogin
  \/ FrontLoadOpportunities
  \/ FrontLoginResponse
  \/ FrontGetResponse
  \/ FrontLogout

SpecFront == InitWrite /\ [][NextFront]_vars

\* C30: after any sequence of logins, logouts and API responses
\* localStorage holds a 'token' entry if and only if it holds a 'user'
\* entry; every API response with status 401 removes both entries and
\* navigates to /login; a protected page is shown only while a user is held,
\* and otherwise the route shown is /login.
C30_SessionStorageConsistent ==
  [][browser' # <<>> =>
       /\ browser'.token = Absent <=> browser'.stored = Absent
       /\ browser'.location \in ProtectedPages => browser'.user # {}
       /\ browser'.user = {} => browser'.location = "/login"
       /\ (/\ browser # <<>>
           /\ browser'.received = browser.received + 1
           /\ resp'.status = 401) =>
            /\ browser'.token = Absent /\ browser'.stored = Absent
            /\ browser'.location = "/login"]_vars

\* C30 witness: after a login, the list of opportunities was asked for with
\* a token that had expired when the API answered; the 401 removed both
\* entries and the user, and the login page is shown.
C30_ExpiredSessionCleared ==
  /\ browser # <<>> /\ browser.received = 2
  /\ req.method = "GET" /\ resp.status = 401 /\ resp.error = "Invalid token"
  /\ browser.token = Absent /\ browser.stored = Absent /\ browser.user = {}
  /\ browser.location = "/login"

====
